---- MODULE Spec2Model ----
(***************************************************************************)
(* Model of the review-and-remediation pipeline of ai-pr-reviewer:         *)
(* review_pr (reviewer.py), generate_fix_pr (fix_generator.py),            *)
(* wait_for_checks (test_runner.py) and run_review (main.py).              *)
(***************************************************************************)
EXTENDS Integers, Sequences, FiniteSets, TLC

VARIABLES
    pc,            \* position of the single thread of control
    config,        \* ReviewConfig in force
    files,         \* review_pr: the filtered file list (filenames, input order)
    idx,           \* review_pr: index of the next file of the for loop
    all_findings,  \* review_pr: the unfiltered findings collected so far
    findings,      \* review_pr: the returned (severity-filtered) list
    sent,          \* history: filenames sent to the model by _review_file
    contrib,       \* history: number of findings each sent file contributed
    answers,       \* history: what the model service did for each sent file
    elapsed,       \* wait_for_checks: accumulated wait
    results,       \* wait_for_checks: the local list of TestResult
    test_results,  \* the list wait_for_checks returned
    poll_state,    \* "idle", "polling", "completed", "timed_out", "aborted"
    polls,         \* history: number of get_check_runs calls
    waits,         \* history: number of time.sleep calls
    last_fetched,  \* history: what the latest get_check_runs call answered
    pr,            \* PRInfo of the change request under review
    fix_in,        \* generate_fix_pr: the findings it was given
    files_to_fix,  \* generate_fix_pr: the selected paths, first-seen order
    fidx,          \* generate_fix_pr: index of the file being fixed
    current_content, \* _fix_and_commit_file: content read from the fix branch
    file_sha,      \* _fix_and_commit_file: content-identity token read
    fixed_content, \* _fix_and_commit_file: the extracted corrected body
    committed_any, \* generate_fix_pr: some file was committed
    fix_pr_url,    \* what generate_fix_pr returned (a URL or None)
    pulls,         \* the change requests opened on the hosting service
    branch,        \* hosting: the fix branch (exists, path -> content)
    commits,       \* hosting history: the commits it accepted
    failed,        \* history: indices of selected files with a failed step
    handled,       \* history: "success" of each finished _fix_and_commit_file
    writes,        \* history: number of edits by other writers
    ops,           \* history: hosting and fix-model calls, in call order
    creds,         \* run_review: which credentials are available
    issue_urls,    \* result.issue_urls
    returned,      \* what run_review returned: "none" (not yet), "True", "False"
    skipped,       \* history: a loop-prevention guard stopped the run
    raised_in,     \* history: the stage whose exception escaped run_review
    passed,        \* check_results_passed(result.test_results): "none", "True", "False"
    issue_ok,      \* history: which create_issue calls went through
    patch_lines,   \* parse_patch_line_numbers: the lines of the patch text
    line_ranges,   \* parse_patch_line_numbers: the ranges returned
    response_text  \* _extract_fixed_content: the response text it was given

reviewVars == <<files, idx, all_findings, findings, sent, contrib, answers>>
pollVars == <<elapsed, results, test_results, poll_state, polls, waits, last_fetched>>
fixVars == <<fix_in, files_to_fix, fidx, current_content, file_sha, fixed_content,
             committed_any, fix_pr_url, pulls, branch, commits, failed, handled, writes>>
runVars == <<creds, issue_urls, returned, skipped, raised_in, passed, issue_ok,
             patch_lines, line_ranges, response_text>>
vars == <<pc, config, pr, ops, reviewVars, pollVars, fixVars, runVars>>

(***************************************************************************)
(* Bounds of the model.                                                    *)
(***************************************************************************)
MaxFiles == 3
MaxTotal == 2
MaxPolls == 12
MaxFixFiles == 2
MaxWrites == 1
MaxChecks == 2
MaxPatchLines == 6

MaxResponseLines == 6

(***************************************************************************)
(* models.py                                                               *)
(***************************************************************************)
Severity == {"critical", "high", "medium", "low"}

\* A finding object of a model response. valid = it validates against
\* ReviewFinding; suggested_fix = the field is present and non-empty.
Item(v, f, s, x) == [valid |-> v, file |-> f, severity |-> s, suggested_fix |-> x]

ReviewFinding(item) ==
    [file |-> item.file, severity |-> item.severity,
     suggested_fix |-> item.suggested_fix]

(***************************************************************************)
(* The model service: what client.messages.create may do for one file.     *)
(* kind: api_error = the call raises anthropic.APIError; not_json = the    *)
(* text is no JSON; scalar = JSON that is neither object nor array;        *)
(* list = a JSON array of items; dict = an object whose "findings" is the  *)
(* array of items (or absent: no items); dict_null = an object whose       *)
(* "findings" is null or a number; dict_text = an object whose "findings"  *)
(* is a string or an object (iterating it yields characters or keys).      *)
(***************************************************************************)
Resp(k, items) == [kind |-> k, items |-> items]

ItemLists(f) ==
    { <<>>,
      << Item(TRUE, f, "low", FALSE) >>,
      << Item(TRUE, f, "critical", TRUE) >>,
      << Item(TRUE, f, "high", TRUE), Item(TRUE, f, "medium", FALSE) >>,
      << Item(TRUE, f, "high", FALSE), Item(FALSE, f, "high", FALSE) >>,
      << Item(TRUE, f, "medium", TRUE), Item(FALSE, f, "low", FALSE),
         Item(TRUE, "other.py", "high", TRUE) >> }

ModelResponses(f) ==
    { Resp(k, <<>>) : k \in {"api_error", "not_json", "scalar", "dict_null",
                             "dict_text"} }
        \cup { Resp("list", l) : l \in ItemLists(f) }
        \cup { Resp("dict", l) : l \in { <<>>, << Item(TRUE, f, "high", TRUE),
                                                  Item(FALSE, f, "low", TRUE) >> } }

(***************************************************************************)
(* reviewer.py: _parse_findings                                            *)
(***************************************************************************)
\* Mutant: one finding object that fails to validate discards the response.
ValidFindingsAllOrNothing(items) ==
    IF \E i \in 1..Len(items) : ~items[i].valid THEN <<>>
    ELSE [i \in 1..Len(items) |-> ReviewFinding(items[i])]

RECURSIVE ValidFindings(_)
ValidFindings(items) ==
    IF items = <<>> THEN <<>>
    ELSE (IF Head(items).valid THEN << ReviewFinding(Head(items)) >> ELSE <<>>)
             \o ValidFindings(Tail(items))

\* [raised |-> TRUE] when an exception escapes _parse_findings (iterating a
\* findings value that is no iterable raises TypeError, which only the
\* per-item try could catch); otherwise the list it returns.
_parse_findings(resp) ==
    CASE resp.kind = "not_json"  -> [raised |-> FALSE, out |-> <<>>]
      [] resp.kind = "scalar"    -> [raised |-> FALSE, out |-> <<>>]
      [] resp.kind = "dict_null" -> [raised |-> TRUE,  out |-> <<>>]
      [] resp.kind = "dict_text" -> [raised |-> FALSE, out |-> <<>>]
      [] OTHER -> [raised |-> FALSE, out |-> ValidFindings(resp.items)]

\* Mutant: the API error is not caught.
_review_file_uncaught(resp) ==
    IF resp.kind = "api_error" THEN [raised |-> TRUE, out |-> <<>>]
    ELSE _parse_findings(resp)

\* reviewer.py: _review_file
_review_file(resp) ==
    IF resp.kind = "api_error" THEN [raised |-> FALSE, out |-> <<>>]
    ELSE _parse_findings(resp)

(***************************************************************************)
(* reviewer.py: review_pr                                                  *)
(***************************************************************************)
\* Mutant: high and medium change places.
severity_order_swapped == <<"critical", "medium", "high", "low">>

severity_order == <<"critical", "high", "medium", "low">>

SeverityIndex(s) == CHOOSE i \in 1..Len(severity_order) : severity_order[i] = s

\* Mutant: the comparison of the ordinal positions reversed.
SeverityKeptReversed(sev, min_severity) ==
    SeverityIndex(sev) >= SeverityIndex(min_severity)

SeverityKept(sev, min_severity) == SeverityIndex(sev) <= SeverityIndex(min_severity)

SeverityFilter(fs, min_severity) ==
    SelectSeq(fs, LAMBDA f : SeverityKept(f.severity, min_severity))

\* Mutant: the cap test off by one.
CapReachedStrict(n, max_total) == n > max_total

CapReached(n, max_total) == n >= max_total

\* Mutant: the findings of a file are put in front of the earlier ones.
ExtendInFront(acc, out) == out \o acc

\* "all_findings.extend(findings)"
Extend(acc, out) == acc \o out

\* One iteration of "for file_change in files": the cap test, then
\* _review_file and all_findings.extend.
ReviewFileWith(Responses) ==
    /\ pc = "review_loop"
    /\ idx <= Len(files)
    /\ ~CapReached(Len(all_findings), config.max_total_findings)
    /\ \E resp \in Responses[files[idx]] :
         LET r == _review_file(resp) IN
           /\ sent' = Append(sent, files[idx])
           /\ answers' = Append(answers, resp)
           /\ IF r.raised
              THEN /\ pc' = "review_raised"
                   /\ UNCHANGED <<all_findings, contrib, idx>>
              ELSE /\ all_findings' = Extend(all_findings, r.out)
                   /\ contrib' = Append(contrib, Len(r.out))
                   /\ idx' = idx + 1
                   /\ pc' = "review_loop"
    /\ UNCHANGED <<runVars, config, pr, ops, files, findings, pollVars, fixVars>>

ReviewFile ==
    ReviewFileWith([f \in {files[i] : i \in 1..Len(files)} |-> ModelResponses(f)])

\* The loop ends (break on the cap, or files exhausted); the severity
\* filter runs and review_pr returns.
ReviewReturn ==
    /\ pc = "review_loop"
    /\ \/ idx > Len(files)
       \/ CapReached(Len(all_findings), config.max_total_findings)
    /\ findings' = SeverityFilter(all_findings, config.min_severity)
    /\ pc' = "review_done"
    /\ UNCHANGED <<runVars, config, pr, ops, files, idx, all_findings, sent, contrib,
                   answers,
                   pollVars, fixVars>>

ReviewIdle ==
    /\ files = <<>>
    /\ idx = 1
    /\ all_findings = <<>>
    /\ findings = <<>>
    /\ sent = <<>>
    /\ contrib = <<>>
    /\ answers = <<>>

PollIdle ==
    /\ elapsed = 0
    /\ results = <<>>
    /\ test_results = <<>>
    /\ poll_state = "idle"
    /\ polls = 0
    /\ waits = 0
    /\ last_fetched = <<>>

\* Python's None, and a path that a tree does not hold.
None == <<"none">>

Absent == <<"absent">>

\* The text of a fix-model response, after strip(): what json.loads makes
\* of the whole text ("object", "other" for any other JSON value, "invalid"
\* when it raises JSONDecodeError), the value of the "fixed_content" key of
\* an object (Absent without the key, None for null) and the lines of
\* text.split("\n").
Response(json, field, lines) == [json |-> json, fixed_content |-> field, lines |-> lines]

NoResponse == Response("none", Absent, <<>>)

\* Lines of a response: a marker line starts with three backticks, an
\* inline line has them further in, a plain line has none.
Fence == <<"fence", <<>>>>

InlineLine == <<"inline", <<>>>>

PlainLine(c) == <<"plain", c>>

\* "\n".join(lines) + "\n"
Joined(lines) == <<"text", lines>>

\* A hosting or fix-model call: its name and the path it is about.
Op(name, path) == [op |-> name, path |-> path]

\* Paths known to the hosting service; FileNames exist at the head revision.
FileNames == <<"a.py", "b.py", "c.py", "d.py", "e.py">>

RepoFiles == { FileNames[i] : i \in 1..Len(FileNames) }

Paths == RepoFiles \cup {"other.py"}

\* The fix branch does not exist.
NoBranch ==
    [exists |-> FALSE, name |-> <<>>, from |-> None, creator |-> "none",
     tree |-> [p \in Paths |-> Absent]]

\* create_git_ref(ref="refs/heads/" + name, sha=from_sha): the branch starts
\* with the tree of that revision. creator tells this run's branch from one
\* an earlier run left behind.
HeadTree(name, from_sha, creator) ==
    [exists |-> TRUE, name |-> name, from |-> <<"sha", from_sha>>,
     creator |-> creator,
     tree |-> [p \in Paths |-> IF p \in RepoFiles THEN <<"v0">> ELSE Absent]]

FixIdle ==
    /\ fix_in = <<>>
    /\ files_to_fix = <<>>
    /\ fidx = 1
    /\ current_content = None
    /\ file_sha = None
    /\ fixed_content = None
    /\ committed_any = FALSE
    /\ fix_pr_url = None
    /\ pulls = <<>>
    /\ branch = NoBranch
    /\ commits = <<>>
    /\ failed = {}
    /\ handled = <<>>
    /\ writes = 0

(***************************************************************************)
(* Configurations. DefaultConfig is ReviewConfig() of models.py.           *)
(***************************************************************************)
DefaultConfig ==
    [min_severity |-> "low", max_findings_per_file |-> 10,
     max_total_findings |-> 50,
     labels |-> [review |-> "ai-review", automated |-> "automated", fix |-> "ai-fix"],
     exclude_patterns |-> <<>>,
     fix_enabled |-> TRUE, fix_branch_prefix |-> <<"a", "i", "-", "f", "i", "x", "/">>,
     fix_max_files_per_pr |-> 10,
     test_check_enabled |-> TRUE, test_check_timeout |-> 300,
     test_check_poll_interval |-> 30]

\* The change request of the unit tests' fixtures (conftest.py).
SamplePR ==
    [number |-> 42, author |-> <<"d", "e", "v", "e", "l", "o", "p", "e", "r">>,
     head_branch |-> <<"f", "e", "a", "t", "u", "r", "e", "/", "x">>,
     base_branch |-> <<"m", "a", "i", "n">>, head_sha |-> "abc123", labels |-> {}, files |-> <<>>]

\* str(n) for n >= 0, as a sequence of characters.
DigitChars == <<"0", "1", "2", "3", "4", "5", "6", "7", "8", "9">>

RECURSIVE Digits(_)
Digits(n) ==
    IF n < 10 THEN <<DigitChars[n + 1]>>
    ELSE Digits(n \div 10) \o <<DigitChars[(n % 10) + 1]>>

\* f"{config.fix_branch_prefix}{pr_info.number}"
FixBranchName == config.fix_branch_prefix \o Digits(pr.number)

RunIdle ==
    /\ creds = [gh_token |-> TRUE, api_key |-> TRUE]
    /\ issue_urls = <<>>
    /\ returned = "none"
    /\ skipped = FALSE
    /\ raised_in = "none"
    /\ passed = "none"
    /\ issue_ok = <<>>
    /\ patch_lines = <<>>
    /\ line_ranges = <<>>
    /\ response_text = NoResponse

(***************************************************************************)
(* Specification of review_pr alone: any file list, any configuration.     *)
(***************************************************************************)
ReviewConfigs ==
    { [DefaultConfig EXCEPT !.min_severity = s, !.max_total_findings = m,
                            !.max_findings_per_file = p] :
        s \in Severity, m \in 1..MaxTotal, p \in {1, 10} }

InitReview ==
    /\ pc = "review_loop"
    /\ config \in ReviewConfigs
    /\ \E n \in 0..MaxFiles : files = SubSeq(FileNames, 1, n)
    /\ idx = 1
    /\ all_findings = <<>>
    /\ findings = <<>>
    /\ sent = <<>>
    /\ contrib = <<>>
    /\ answers = <<>>
    /\ PollIdle
    /\ FixIdle
    /\ pr = SamplePR
    /\ ops = <<>>
    /\ RunIdle

NextReview == ReviewFile \/ ReviewReturn

SpecReview == InitReview /\ [][NextReview]_vars

(***************************************************************************)
(* Claims about review_pr (checked under SpecReview).                      *)
(***************************************************************************)
RECURSIVE SumSeq(_)
SumSeq(s) == IF s = <<>> THEN 0 ELSE Head(s) + SumSeq(Tail(s))

\* Findings collected from the first k reviewed files.
CollectedFrom(k) ==
    SumSeq(SubSeq(contrib, 1, IF k < Len(contrib) THEN k ELSE Len(contrib)))

\* C3: the running total of unfiltered findings never exceeds
\* max_total_findings, and review_pr returns at most that many findings.
C3_TotalWithinCap ==
    /\ Len(all_findings) <= config.max_total_findings
    /\ pc = "review_done" => Len(findings) <= config.max_total_findings

\* C4: a file is sent to the model iff the findings collected from the files
\* before it number fewer than max_total_findings; the files sent are a
\* prefix of the input, each once, in input order.
C4_SentIffBelowCap ==
    /\ Len(sent) <= Len(files)
    /\ sent = SubSeq(files, 1, Len(sent))
    /\ \A i \in 1..Len(sent) :
          CollectedFrom(i - 1) < config.max_total_findings
    /\ pc = "review_done" =>
          \A i \in (Len(sent) + 1)..Len(files) :
             CollectedFrom(i - 1) >= config.max_total_findings

\* The cap stopped the loop with a file left unreviewed.
C4_Witness ==
    /\ pc = "review_done"
    /\ Len(sent) = 2
    /\ Len(files) = 3
    /\ contrib = <<1, 1>>

Rank == [critical |-> 4, high |-> 3, medium |-> 2, low |-> 1]

AtLeastAsSevere(s, m) == Rank[s] >= Rank[m]

\* C5: review_pr returns exactly the collected findings whose severity is at
\* least as severe as min_severity (critical > high > medium > low).
C5_SeverityFilterExact ==
    pc = "review_done" =>
        findings = SelectSeq(all_findings,
                             LAMBDA f : AtLeastAsSevere(f.severity, config.min_severity))

\* min_severity = high keeps a critical or high finding and drops a medium one.
C5_Witness ==
    /\ pc = "review_done"
    /\ config.min_severity = "high"
    /\ \E i \in 1..Len(all_findings) : all_findings[i].severity = "medium"
    /\ \E i \in 1..Len(findings) : findings[i].severity = "high"
    /\ Len(findings) < Len(all_findings)

\* The findings a response is to yield: its validating finding objects, in
\* response order.
Validating(items) ==
    LET v == SelectSeq(items, LAMBDA it : it.valid)
    IN  [k \in 1..Len(v) |-> [file |-> v[k].file, severity |-> v[k].severity,
                              suggested_fix |-> v[k].suggested_fix]]

RECURSIVE ConcatValidating(_)
ConcatValidating(as) ==
    IF as = <<>> THEN <<>>
    ELSE Validating(Head(as).items) \o ConcatValidating(Tail(as))

Malformed(resp) ==
    \/ resp.kind \in {"not_json", "scalar", "dict_null", "dict_text"}
    \/ resp.kind = "dict" /\ resp.items = <<>>

\* C17: no response text makes the parsing fail the run; a response that is
\* no JSON, a scalar, an object without findings or an object whose
\* findings value is no array contributes zero findings and the loop goes on.
C17_MalformedYieldsZero ==
    /\ pc # "review_raised"
    /\ \A i \in 1..Len(answers) :
          Malformed(answers[i]) => (i <= Len(contrib) /\ contrib[i] = 0)

\* C18: each response contributes exactly its validating finding objects,
\* in response order; an object that does not validate costs its siblings
\* nothing.
C18_PerItemTolerant ==
    /\ all_findings = ConcatValidating(SubSeq(answers, 1, Len(contrib)))
    /\ \A i \in 1..Len(contrib) :
          answers[i].kind \in {"list", "dict"} =>
              contrib[i] = Cardinality({ k \in 1..Len(answers[i].items) :
                                            answers[i].items[k].valid })

\* A response with one valid and one invalid finding object gave one finding.
C18_Witness ==
    /\ pc = "review_done"
    /\ \E i \in 1..Len(contrib) :
          /\ Len(answers[i].items) = 2
          /\ answers[i].items[1].valid
          /\ ~answers[i].items[2].valid
          /\ contrib[i] = 1

\* C19: a file whose model call fails with an API error contributes zero
\* findings and does not end the review: every later file is still sent
\* unless the total cap is reached, and the findings returned are those of
\* the other files.
C19_ApiErrorSkipsFileOnly ==
    /\ \A i \in 1..Len(answers) :
          answers[i].kind = "api_error" => (i <= Len(contrib) /\ contrib[i] = 0)
    /\ pc = "review_done" =>
          /\ \A i \in 1..Len(answers) :
                answers[i].kind = "api_error" =>
                    \A j \in (i + 1)..Len(files) :
                        \/ j <= Len(sent)
                        \/ CollectedFrom(j - 1) >= config.max_total_findings
          /\ findings =
               SelectSeq(ConcatValidating(
                             SelectSeq(answers, LAMBDA a : a.kind # "api_error")),
                         LAMBDA f : AtLeastAsSevere(f.severity, config.min_severity))

\* The first file's call failed, a later file was reviewed and its findings
\* were returned.
C19_Witness ==
    /\ pc = "review_done"
    /\ Len(answers) >= 2
    /\ answers[1].kind = "api_error"
    /\ Len(sent) = Len(files)
    /\ findings # <<>>

\* C20: no reviewed file contributes more than max_findings_per_file
\* findings to the findings review_pr collects.
C20_PerFileCap ==
    \A i \in 1..Len(contrib) : contrib[i] <= config.max_findings_per_file

\* s is t with some entries left out, order kept.
RECURSIVE IsSubSeq(_, _)
IsSubSeq(s, t) ==
    IF s = <<>> THEN TRUE
    ELSE IF t = <<>> THEN FALSE
    ELSE IF Head(s) = Head(t) THEN IsSubSeq(Tail(s), Tail(t))
    ELSE IsSubSeq(s, Tail(t))

\* C25: for the findings collected, every min_severity stricter than the
\* configured one keeps no more findings than review_pr returned, and
\* keeps only findings that review_pr returned.
C25_SeverityFilterMonotonic ==
    pc = "review_done" =>
        \A lax, strict \in Severity :
            Rank[strict] > Rank[lax] =>
                LET kept_lax == SeverityFilter(all_findings, lax)
                    kept_strict == SeverityFilter(all_findings, strict)
                IN  /\ Len(kept_strict) <= Len(kept_lax)
                    /\ IsSubSeq(kept_strict, kept_lax)
                    /\ lax = config.min_severity =>
                          (kept_lax = findings /\ IsSubSeq(kept_strict, findings))

\* Findings of three severities; medium keeps fewer than low and high fewer
\* than medium.
C25_Witness ==
    /\ pc = "review_done"
    /\ config.min_severity = "medium"
    /\ Len(findings) < Len(all_findings)
    /\ Len(SeverityFilter(all_findings, "high")) < Len(findings)
    /\ Len(SeverityFilter(all_findings, "high")) > 0

\* The findings of one response that the severity filter keeps.
KeptOf(resp) ==
    SelectSeq(Validating(resp.items),
              LAMBDA f : AtLeastAsSevere(f.severity, config.min_severity))

RECURSIVE ConcatKept(_)
ConcatKept(as) ==
    IF as = <<>> THEN <<>> ELSE KeptOf(Head(as)) \o ConcatKept(Tail(as))

\* C28: the returned findings are the kept findings of the first file, then
\* those of the second, and so on in file order, each file's findings in
\* response order and contiguous.
C28_OutputInFileOrder ==
    pc = "review_done" =>
        /\ sent = SubSeq(files, 1, Len(sent))
        /\ Len(answers) = Len(sent)
        /\ findings = ConcatKept(answers)

\* Two files with findings each; the first file's finding comes first.
C28_Witness ==
    /\ pc = "review_done"
    /\ Len(answers) >= 2
    /\ KeptOf(answers[1]) # <<>>
    /\ KeptOf(answers[2]) # <<>>
    /\ KeptOf(answers[1]) # KeptOf(answers[2])
    /\ Len(findings) >= 2

(***************************************************************************)
(* test_runner.py: wait_for_checks                                         *)
(***************************************************************************)
TestResult(n, st, c) == [name |-> n, status |-> st, conclusion |-> c]

\* What gh.get_check_runs may answer at one poll.
CheckRunResponses ==
    { <<>>,
      << TestResult("CI", "queued", "none") >>,
      << TestResult("CI", "in_progress", "none") >>,
      << TestResult("CI", "completed", "success") >>,
      << TestResult("CI", "completed", "success"),
         TestResult("Lint", "in_progress", "none") >>,
      << TestResult("CI", "completed", "success"),
         TestResult("Lint", "completed", "failure") >> }

\* Mutant: one completed entry is enough.
AnyCompleted(rs) == \E i \in 1..Len(rs) : rs[i].status = "completed"

AllCompleted(rs) == \A i \in 1..Len(rs) : rs[i].status = "completed"

\* Mutant: the loop runs once more when the wait has reached the timeout.
LoopContinuesInclusive(e, timeout) == e <= timeout

\* "while elapsed < timeout"
LoopContinues(e, timeout) == e < timeout

\* Mutant: the final fetch is merged into the previous poll's list.
TimedOutResultMerged(prev, fresh) == prev \o fresh

\* After the loop: "results = gh.get_check_runs(ref)" replaces the list.
TimedOutResult(prev, fresh) == fresh

\* Mutant: the configuration switch is not looked at.
PollingDisabledNever(cfg) == FALSE

\* "if not config.test_check_enabled"
PollingDisabled(cfg) == ~cfg.test_check_enabled

\* "if not config.test_check_enabled: return []", else the loop is entered.
WaitStart ==
    /\ pc = "wait_start"
    /\ IF PollingDisabled(config)
       THEN /\ test_results' = <<>>
            /\ pc' = "wait_done"
            /\ UNCHANGED <<elapsed, poll_state>>
       ELSE /\ elapsed' = 0
            /\ poll_state' = "polling"
            /\ pc' = "poll_loop"
            /\ UNCHANGED test_results
    /\ UNCHANGED <<runVars, config, pr, ops, reviewVars, fixVars, results, polls, waits,
                   last_fetched>>

\* time.sleep(interval) raises ValueError for a negative length.
SleepRaises(interval) == interval < 0

\* Mutant: each sleep is longer than the one before.
SleepLengthBackoff(cfg, n) == cfg.test_check_poll_interval * (n + 1)

\* "time.sleep(interval); elapsed += interval": the length of the sleep that
\* follows n earlier sleeps.
SleepLength(cfg, n) == cfg.test_check_poll_interval

\* One iteration of the while loop: a poll, then return or sleep.
Poll ==
    /\ pc = "poll_loop"
    /\ LoopContinues(elapsed, config.test_check_timeout)
    /\ polls < MaxPolls
    /\ polls' = polls + 1
    /\ ops' = Append(ops, Op("get_check_runs", "-"))
    /\ \E r \in CheckRunResponses :
         /\ last_fetched' = r
         /\ results' = r
         /\ IF r # <<>> /\ AllCompleted(r)
            THEN /\ test_results' = r
                 /\ poll_state' = "completed"
                 /\ pc' = "wait_done"
                 /\ UNCHANGED <<waits, elapsed>>
            ELSE IF SleepRaises(config.test_check_poll_interval)
                 THEN /\ poll_state' = "aborted"
                      /\ pc' = "wait_raised"
                      /\ UNCHANGED <<waits, elapsed, test_results>>
                 ELSE /\ waits' = waits + 1
                      /\ elapsed' = elapsed + SleepLength(config, waits)
                      /\ UNCHANGED <<test_results, poll_state, pc>>
    /\ UNCHANGED <<runVars, config, pr, reviewVars, fixVars>>

\* gh.get_check_runs raises inside the loop or after it: nothing in
\* wait_for_checks catches it.
PollRaises ==
    /\ pc = "poll_loop"
    /\ polls < MaxPolls
    /\ polls' = polls + 1
    /\ ops' = Append(ops, Op("get_check_runs", "-"))
    /\ poll_state' = "aborted"
    /\ pc' = "wait_raised"
    /\ UNCHANGED <<runVars, config, pr, reviewVars, fixVars, elapsed, results, test_results,
                   waits, last_fetched>>

\* The loop condition fails: one more fetch, returned as it is.
PollTimeout ==
    /\ pc = "poll_loop"
    /\ ~LoopContinues(elapsed, config.test_check_timeout)
    /\ polls < MaxPolls
    /\ polls' = polls + 1
    /\ ops' = Append(ops, Op("get_check_runs", "-"))
    /\ \E r \in CheckRunResponses :
         /\ last_fetched' = r
         /\ results' = TimedOutResult(results, r)
         /\ test_results' = results'
    /\ poll_state' = "timed_out"
    /\ pc' = "wait_done"
    /\ UNCHANGED <<runVars, config, pr, reviewVars, fixVars, elapsed, waits>>

(***************************************************************************)
(* Specification of wait_for_checks alone. Timeouts and intervals are in   *)
(* seconds; 60/10 is the configuration of the unit tests, 300/30 the       *)
(* default; ReviewConfig accepts any integers, zero and negative ones      *)
(* included.                                                               *)
(***************************************************************************)
PollTimings ==
    { <<60, 10>>, <<300, 30>>, <<60, 25>>, <<20, 30>>, <<0, 10>>, <<60, 0>>, <<60, -5>> }

PollConfigs ==
    { [DefaultConfig EXCEPT !.test_check_enabled = e,
                            !.test_check_timeout = t[1],
                            !.test_check_poll_interval = t[2]] :
        e \in BOOLEAN, t \in PollTimings }

InitPoll ==
    /\ pc = "wait_start"
    /\ config \in PollConfigs
    /\ ReviewIdle
    /\ PollIdle
    /\ FixIdle
    /\ pr = SamplePR
    /\ ops = <<>>
    /\ RunIdle

NextPoll == WaitStart \/ Poll \/ PollRaises \/ PollTimeout

SpecPoll == InitPoll /\ [][NextPoll]_vars

\* A pass of the while loop after the first MaxPolls polls. The histories
\* polls, waits and ops record MaxPolls calls, more than any loop makes
\* whose accumulated wait advances; the loop itself goes on.
PollUnrecorded ==
    /\ pc = "poll_loop"
    /\ LoopContinues(elapsed, config.test_check_timeout)
    /\ polls = MaxPolls
    /\ \E r \in CheckRunResponses :
         /\ last_fetched' = r
         /\ results' = r
         /\ IF r # <<>> /\ AllCompleted(r)
            THEN /\ test_results' = r
                 /\ poll_state' = "completed"
                 /\ pc' = "wait_done"
                 /\ UNCHANGED elapsed
            ELSE IF SleepRaises(config.test_check_poll_interval)
                 THEN /\ poll_state' = "aborted"
                      /\ pc' = "wait_raised"
                      /\ UNCHANGED <<elapsed, test_results>>
                 ELSE /\ elapsed' = elapsed + SleepLength(config, waits)
                      /\ UNCHANGED <<test_results, poll_state, pc>>
    /\ UNCHANGED <<runVars, config, pr, ops, reviewVars, fixVars, polls, waits>>

NextPollLive == NextPoll \/ PollUnrecorded

\* wait_for_checks runs on the only thread of the process: a step that can
\* be taken is taken.
SpecPollLive == InitPoll /\ [][NextPollLive]_vars /\ WF_vars(NextPollLive)

(***************************************************************************)
(* Claims about wait_for_checks (checked under SpecPoll).                  *)
(***************************************************************************)
\* C7: polling is left for completed at a poll iff that poll answers a
\* non-empty list whose entries are all completed; polling is left for
\* timed-out only when the accumulated wait has reached the timeout; after
\* a completing poll there is no further poll or wait.
C7_CompletedIffAllCompleted ==
    /\ [][ (poll_state = "polling" /\ poll_state' = "completed")
            <=> ( /\ poll_state = "polling"
                  /\ elapsed < config.test_check_timeout
                  /\ polls' = polls + 1
                  /\ last_fetched' # <<>>
                  /\ \A i \in 1..Len(last_fetched') :
                        last_fetched'[i].status = "completed"
                  /\ pc' # "wait_raised" ) ]_vars
    /\ [][ (poll_state = "polling" /\ poll_state' = "timed_out")
            => elapsed >= config.test_check_timeout ]_vars
    /\ [][ poll_state = "completed"
            => (polls' = polls /\ waits' = waits /\ poll_state' = "completed") ]_vars

\* A poll answered zero check runs, polling went on, and a later poll completed.
C7_Witness ==
    /\ poll_state = "completed"
    /\ polls = 3
    /\ waits = 2
    /\ elapsed = 20

\* C8 as stated: with poll interval 10 and timeout 60, get_check_runs is
\* called at most 6 times (T/I polls).
C8_AtMostSixPolls ==
    (config.test_check_timeout = 60 /\ config.test_check_poll_interval = 10)
        => polls <= 6

\* C8 amended: at most T/I polls inside the loop and one more after the
\* timeout (7 for 60/10); the timed-out call returns the last-fetched list.
C8_AtMostTOverIPlusOnePolls ==
    ( /\ config.test_check_poll_interval > 0
      /\ config.test_check_timeout % config.test_check_poll_interval = 0 )
    => /\ polls <= (config.test_check_timeout \div config.test_check_poll_interval) + 1
       /\ waits <= config.test_check_timeout \div config.test_check_poll_interval
       /\ (poll_state = "timed_out" => test_results = last_fetched)

\* Interval 10, timeout 60, no poll completes: the seventh poll is returned.
C8_Witness ==
    /\ config.test_check_timeout = 60
    /\ config.test_check_poll_interval = 10
    /\ pc = "wait_done"
    /\ poll_state = "timed_out"
    /\ polls = 7
    /\ \E i \in 1..Len(test_results) : test_results[i].status = "in_progress"

\* C9: in both terminal states the returned list is the answer of the most
\* recent get_check_runs call, unmodified.
C9_ReturnsLastFetched ==
    (pc = "wait_done" /\ poll_state \in {"completed", "timed_out"})
        => test_results = last_fetched

\* Timed out after several polls with a check still in progress.
C9_Witness ==
    /\ pc = "wait_done"
    /\ poll_state = "timed_out"
    /\ polls >= 3
    /\ test_results = << TestResult("CI", "completed", "success"),
                         TestResult("Lint", "in_progress", "none") >>

\* C27: with check polling disabled wait_for_checks returns the empty
\* list, get_check_runs is never called and there is no wait.
C27_DisabledMeansNoPoll ==
    ~config.test_check_enabled =>
        /\ polls = 0
        /\ waits = 0
        /\ elapsed = 0
        /\ \A i \in 1..Len(ops) : ops[i].op # "get_check_runs"
        /\ pc \in {"wait_start", "wait_done"}
        /\ pc = "wait_done" => test_results = <<>>

\* Polling disabled and wait_for_checks has returned.
C27_Witness ==
    /\ ~config.test_check_enabled
    /\ pc = "wait_done"
    /\ test_results = <<>>
    /\ polls = 0

(***************************************************************************)
(* The hosting service, as github_client.py uses it for the fix branch.    *)
(***************************************************************************)
\* The blob SHA of a content: the content-identity token.
Sha(c) == <<"sha", c>>

\* repo.update_file(path, ..., sha=sha, branch=branch): the hosting service
\* accepts the update iff sha is the blob SHA of the file on the branch.
UpdateAccepted(tree, path, sha) == sha = Sha(tree[path])

\* Mutant: the token is the one of the head revision, taken once.
get_file_sha_cached(tree, path) == Sha(<<"v0">>)

\* GitHubClient.get_file_sha(path, ref): the blob SHA of the file as it is
\* on the branch now, None when the path is not there.
get_file_sha(tree, path) ==
    IF tree[path] = Absent THEN None ELSE Sha(tree[path])

\* Mutant: an existing branch of that name is taken over.
CreateBranchAcceptedExisting(b) == TRUE

\* repo.create_git_ref: the hosting service refuses a ref that exists.
CreateBranchAccepted(b) == ~b.exists

(***************************************************************************)
(* fix_generator.py: generate_fix_pr                                       *)
(***************************************************************************)
\* Mutant: every finding counts as fixable.
FixableAll(fs) == fs

\* "fixable = [f for f in findings if f.suggested_fix]"
Fixable(fs) == SelectSeq(fs, LAMBDA f : f.suggested_fix)

\* Keys of by_file: the distinct paths in first-seen order.
RECURSIVE DistinctPaths(_, _)
DistinctPaths(fs, seen) ==
    IF fs = <<>> THEN <<>>
    ELSE IF Head(fs).file \in seen THEN DistinctPaths(Tail(fs), seen)
         ELSE <<Head(fs).file>> \o DistinctPaths(Tail(fs), seen \cup {Head(fs).file})

\* Python's s[:n].
SliceTo(s, n) ==
    IF n >= 0 THEN SubSeq(s, 1, IF n < Len(s) THEN n ELSE Len(s))
    ELSE SubSeq(s, 1, IF Len(s) + n > 0 THEN Len(s) + n ELSE 0)

FilesToFix(fs, cfg) ==
    SliceTo(DistinctPaths(Fixable(fs), {}), cfg.fix_max_files_per_pr)

\* line.startswith("```")
IsFence(line) == line[1] = "fence"

\* "```" in text
HasBackticks(lines) == \E i \in 1..Len(lines) : lines[i][1] \in {"fence", "inline"}

\* The for loop over the lines: "in_block" and "content_lines" are its
\* locals; the second marker line met ends the loop.
RECURSIVE ContentLines(_, _, _)
ContentLines(lines, in_block, content_lines) ==
    IF lines = <<>> THEN content_lines
    ELSE IF IsFence(Head(lines)) /\ ~in_block
         THEN ContentLines(Tail(lines), TRUE, content_lines)
    ELSE IF IsFence(Head(lines)) /\ in_block THEN content_lines
    ELSE IF in_block
         THEN ContentLines(Tail(lines), TRUE, Append(content_lines, Head(lines)))
    ELSE ContentLines(Tail(lines), FALSE, content_lines)

\* The corrected body extracted from a response text, or None.
_extract_fixed_content(r) ==
    IF r.json = "object" /\ r.fixed_content # Absent THEN r.fixed_content
    ELSE IF HasBackticks(r.lines)
         THEN LET content_lines == ContentLines(r.lines, FALSE, <<>>) IN
              IF content_lines # <<>> THEN Joined(content_lines) ELSE None
    ELSE None

\* The corrected body the fix model writes for content c.
RewriteOf(c) == Joined(<<PlainLine(c)>>)

\* What the fix model may answer to a prompt built from content c: the body
\* as {"fixed_content": ...}, the body in a fenced code block, or text with
\* neither.
FixResponses(c) ==
    { Response("object", RewriteOf(c), <<>>),
      Response("invalid", Absent, <<PlainLine(<<"intro">>), Fence, PlainLine(c), Fence>>),
      Response("invalid", Absent, <<PlainLine(<<"sorry">>)>>) }

\* Where the for loop goes after file i of n returned True or False.
AfterFile(i, n) == IF i < n THEN "fix_read_content" ELSE "fix_finish"

\* Mutant: an exception in one file ends the loop.
AfterRaiseAborts(i, n) == "fix_finish"

\* Where the for loop goes after file i of n raised: "except Exception".
AfterRaise(i, n) == AfterFile(i, n)

FixVarsOfFile == <<current_content, file_sha, fixed_content>>

\* Mutant: the flag is set for every file that was attempted.
CommittedAnyOnAttempt(prev, success) == TRUE

\* "if success: committed_any = True"
CommittedAny(prev, success) == prev \/ success

\* _fix_and_commit_file returned (success = TRUE/FALSE) or raised.
FileEnds(success, raised) ==
    /\ handled' = Append(handled, success)
    /\ failed' = IF success THEN failed ELSE failed \cup {fidx}
    /\ committed_any' = CommittedAny(committed_any, success)
    /\ pc' = IF raised THEN AfterRaise(fidx, Len(files_to_fix))
             ELSE AfterFile(fidx, Len(files_to_fix))
    /\ fidx' = IF pc' = "fix_read_content" THEN fidx + 1 ELSE fidx
    /\ current_content' = None
    /\ file_sha' = None
    /\ fixed_content' = None

\* Mutant: a failed create_branch is logged and the file loop is entered.
AfterBranchFailureContinues == "fix_read_content"

\* "except Exception ... return None" around gh.create_branch.
AfterBranchFailure == "fix_done"

\* Lines 42-61: the fixable filter, grouping, truncation, create_branch.
FixStart ==
    /\ pc = "fix_start"
    /\ IF Fixable(fix_in) = <<>>
       THEN /\ fix_pr_url' = None
            /\ pc' = "fix_done"
            /\ UNCHANGED <<files_to_fix, branch, ops>>
       ELSE /\ files_to_fix' = FilesToFix(fix_in, config)
            /\ ops' = Append(ops, Op("create_branch", "-"))
            /\ \/ /\ CreateBranchAccepted(branch)
                  /\ branch' = HeadTree(FixBranchName, pr.head_sha, "this_run")
                  /\ pc' = IF files_to_fix' = <<>> THEN "fix_finish"
                           ELSE "fix_read_content"
                  /\ UNCHANGED fix_pr_url
               \/ /\ pc' = AfterBranchFailure
                  /\ fix_pr_url' = None
                  /\ UNCHANGED branch
    /\ UNCHANGED <<runVars, config, pr, reviewVars, pollVars, fix_in, fidx, FixVarsOfFile,
                   committed_any, pulls, commits, failed, handled, writes>>

\* gh.get_file_content(filename, ref=fix_branch): the content, None when
\* the path is not on the branch, or an exception of the hosting service.
FixReadContent ==
    /\ pc = "fix_read_content"
    /\ ops' = Append(ops, Op("get_file_content", files_to_fix[fidx]))
    /\ \/ /\ branch.tree[files_to_fix[fidx]] # Absent
          /\ current_content' = branch.tree[files_to_fix[fidx]]
          /\ pc' = "fix_read_sha"
          /\ UNCHANGED <<file_sha, fixed_content, fidx, committed_any, failed,
                         handled>>
       \/ /\ branch.tree[files_to_fix[fidx]] = Absent
          /\ FileEnds(FALSE, FALSE)
       \/ FileEnds(FALSE, TRUE)
    /\ UNCHANGED <<runVars, config, pr, reviewVars, pollVars, fix_in, files_to_fix,
                   fix_pr_url, pulls, branch, commits, writes>>

\* gh.get_file_sha(filename, ref=fix_branch): a second read of the branch.
FixReadSha ==
    /\ pc = "fix_read_sha"
    /\ ops' = Append(ops, Op("get_file_sha", files_to_fix[fidx]))
    /\ \/ /\ branch.tree[files_to_fix[fidx]] # Absent
          /\ file_sha' = get_file_sha(branch.tree, files_to_fix[fidx])
          /\ pc' = "fix_model"
          /\ UNCHANGED <<current_content, fixed_content, fidx, committed_any,
                         failed, handled>>
       \/ /\ branch.tree[files_to_fix[fidx]] = Absent
          /\ FileEnds(FALSE, FALSE)
       \/ FileEnds(FALSE, TRUE)
    /\ UNCHANGED <<runVars, config, pr, reviewVars, pollVars, fix_in, files_to_fix,
                   fix_pr_url, pulls, branch, commits, writes>>

\* client.messages.create and _extract_fixed_content.
FixModelCall ==
    /\ pc = "fix_model"
    /\ ops' = Append(ops, Op("model_fix", files_to_fix[fidx]))
    /\ \/ FileEnds(FALSE, FALSE)      \* "except anthropic.APIError"
       \/ \E r \in FixResponses(current_content) :
            LET body == _extract_fixed_content(r) IN
              IF body = None
              THEN FileEnds(FALSE, FALSE)
              ELSE /\ fixed_content' = body
                   /\ pc' = "fix_commit"
                   /\ UNCHANGED <<current_content, file_sha, fidx, committed_any,
                                  failed, handled>>
    /\ UNCHANGED <<runVars, config, pr, reviewVars, pollVars, fix_in, files_to_fix,
                   fix_pr_url, pulls, branch, commits, writes>>

\* gh.commit_file(path, content, message, branch, sha=file_sha).
FixCommit ==
    /\ pc = "fix_commit"
    /\ ops' = Append(ops, Op("commit_file", files_to_fix[fidx]))
    /\ \/ /\ UpdateAccepted(branch.tree, files_to_fix[fidx], file_sha)
          /\ branch' = [branch EXCEPT !.tree[files_to_fix[fidx]] = fixed_content]
          /\ commits' = Append(commits,
                               [path |-> files_to_fix[fidx],
                                content |-> fixed_content,
                                replaced |-> branch.tree[files_to_fix[fidx]]])
          /\ FileEnds(TRUE, FALSE)
       \/ /\ FileEnds(FALSE, TRUE)
          /\ UNCHANGED <<branch, commits>>
    /\ UNCHANGED <<runVars, config, pr, reviewVars, pollVars, fix_in, files_to_fix,
                   fix_pr_url, pulls, writes>>

\* The "Files Modified" section of the body: one heading per key of the
\* dict it is given, in the dict's order.
_build_fix_pr_body(fixes) == fixes

\* Mutant: the follow-up request targets the trunk.
FixPullRequestToBase(labeled) ==
    [head |-> FixBranchName, base |-> pr.base_branch, labeled |-> labeled,
     body |-> _build_fix_pr_body(files_to_fix)]

\* create_pull(head=fix_branch, base=pr_info.head_branch), then
\* add_to_labels; labeled tells whether add_to_labels went through.
FixPullRequest(labeled) ==
    [head |-> FixBranchName, base |-> pr.head_branch, labeled |-> labeled,
     body |-> _build_fix_pr_body(files_to_fix)]

\* pr.html_url
PullUrl(p) == <<"pull", p.head, p.base>>

\* Mutant: the URL is handed back although create_pull_request raised.
PullFailureResultUrl(p) == PullUrl(p)

\* "except Exception ... return None" around gh.create_pull_request.
PullFailureResult(p) == None

\* Lines 85-105: no commit, no change request; else create_pull_request
\* (create_pull, then add_to_labels, either of which may raise).
FixFinish ==
    /\ pc = "fix_finish"
    /\ pc' = "fix_done"
    /\ IF ~committed_any
       THEN fix_pr_url' = None /\ UNCHANGED <<ops, pulls>>
       ELSE /\ ops' = Append(ops, Op("create_pull_request", "-"))
            /\ \/ /\ pulls' = Append(pulls, FixPullRequest(TRUE))
                  /\ fix_pr_url' = PullUrl(FixPullRequest(TRUE))
               \/ /\ pulls' = Append(pulls, FixPullRequest(FALSE))
                  /\ fix_pr_url' = PullFailureResult(FixPullRequest(FALSE))
               \/ /\ fix_pr_url' = PullFailureResult(FixPullRequest(TRUE))
                  /\ UNCHANGED pulls
    /\ UNCHANGED <<runVars, config, pr, reviewVars, pollVars, fix_in, files_to_fix, fidx,
                   FixVarsOfFile, committed_any, branch, commits, failed, handled,
                   writes>>

\* Another writer of the repository edits a selected file on the fix branch
\* while the synthesis is between two of its steps.
OtherWriter ==
    /\ pc \in {"fix_read_content", "fix_read_sha", "fix_model", "fix_commit"}
    /\ writes < MaxWrites
    /\ writes' = writes + 1
    /\ \E i \in 1..Len(files_to_fix) :
         /\ branch.tree[files_to_fix[i]] # Absent
         /\ branch' = [branch EXCEPT !.tree[files_to_fix[i]] = <<"w", @>>]
    /\ UNCHANGED <<runVars, pc, config, pr, ops, reviewVars, pollVars, fix_in, files_to_fix,
                   fidx, FixVarsOfFile, committed_any, fix_pr_url, pulls, commits, failed,
                   handled>>

(***************************************************************************)
(* Specification of generate_fix_pr alone, with another writer.            *)
(***************************************************************************)
Finding(f, s, x) == [file |-> f, severity |-> s, suggested_fix |-> x]

FixInputs ==
    { <<>>,
      << Finding("a.py", "medium", FALSE) >>,
      << Finding("a.py", "critical", TRUE) >>,
      << Finding("a.py", "high", TRUE), Finding("b.py", "medium", TRUE),
         Finding("a.py", "low", TRUE) >>,
      << Finding("other.py", "high", TRUE), Finding("b.py", "low", FALSE),
         Finding("c.py", "low", TRUE) >>,
      << Finding("a.py", "high", TRUE), Finding("b.py", "high", TRUE),
         Finding("c.py", "high", TRUE), Finding("d.py", "high", TRUE) >> }

FixConfigs ==
    { [DefaultConfig EXCEPT !.fix_max_files_per_pr = n] :
        n \in (1..MaxFixFiles) \cup {-1, 0} }

InitFix ==
    /\ pc = "fix_start"
    /\ config \in FixConfigs \cup {DefaultConfig}
    /\ pr = SamplePR
    /\ ops = <<>>
    /\ RunIdle
    /\ ReviewIdle
    /\ PollIdle
    /\ fix_in \in FixInputs
    /\ files_to_fix = <<>>
    /\ fidx = 1
    /\ current_content = None
    /\ file_sha = None
    /\ fixed_content = None
    /\ committed_any = FALSE
    /\ fix_pr_url = None
    /\ pulls = <<>>
    /\ branch \in {NoBranch, HeadTree(FixBranchName, pr.head_sha, "earlier")}
    /\ commits = <<>>
    /\ failed = {}
    /\ handled = <<>>
    /\ writes = 0

NextFix ==
    \/ FixStart
    \/ FixReadContent
    \/ FixReadSha
    \/ FixModelCall
    \/ FixCommit
    \/ FixFinish
    \/ OtherWriter

SpecFix == InitFix /\ [][NextFix]_vars

(***************************************************************************)
(* Claims about generate_fix_pr (checked under SpecFix).                   *)
(***************************************************************************)
\* C6: a fix commit succeeds only when the content the fix was generated
\* from is still the file's content on the branch: an edit by another
\* writer between the content read and the commit makes the commit fail.
C6_CommitOnlyOnUnchangedContent ==
    \A k \in 1..Len(commits) :
        commits[k].content = RewriteOf(commits[k].replaced)

\* C10: a failed read, model error, failed extraction or rejected commit
\* skips only that file: no commit is recorded for it, every later selected
\* file is still processed, and a file counts as committed iff all of its
\* steps succeeded.
C10_PerFileFailureIsolation ==
    /\ \A i \in 1..Len(handled) :
          /\ handled[i] <=> i \notin failed
          /\ handled[i] <=> \E k \in 1..Len(commits) :
                               commits[k].path = files_to_fix[i]
    /\ committed_any <=> \E i \in 1..Len(handled) : handled[i]
    /\ Len(commits) <= Len(handled)
    /\ pc = "fix_finish" => Len(handled) = Len(files_to_fix)

\* The first of two selected files failed and the second was committed.
C10_Witness ==
    /\ pc = "fix_finish"
    /\ Len(files_to_fix) = 2
    /\ failed = {1}
    /\ handled = <<FALSE, TRUE>>
    /\ Len(commits) = 1

\* The paths of the calls of one hosting or model operation, in call order.
OpPaths(name) ==
    LET sel == SelectSeq(ops, LAMBDA o : o.op = name)
    IN  [i \in 1..Len(sel) |-> sel[i].path]

OpCount(name) == Len(OpPaths(name))

NoFileWork ==
    /\ OpCount("get_file_content") = 0
    /\ OpCount("get_file_sha") = 0
    /\ OpCount("model_fix") = 0
    /\ OpCount("commit_file") = 0
    /\ commits = <<>>

\* C11: a step in which create_branch is called and no branch results ends
\* the synthesis: no result, no read of the fix branch, no model call, no
\* commit and no change request; nothing happens after the synthesis ended.
C11_BranchFailureAborts ==
    /\ [][ ( /\ pc = "fix_start"
             /\ OpCount("create_branch")' = 1
             /\ (branch.exists \/ ~branch'.exists) )
           => ( /\ pc' = "fix_done"
                /\ fix_pr_url' = None
                /\ NoFileWork'
                /\ OpCount("create_pull_request")' = 0
                /\ pulls' = <<>>
                /\ branch' = branch ) ]_vars
    /\ [][ pc # "fix_done" ]_vars

\* Fixable findings, create_branch refused, the synthesis over.
C11_Witness ==
    /\ pc = "fix_done"
    /\ \E i \in 1..Len(fix_in) : fix_in[i].suggested_fix
    /\ ops = << Op("create_branch", "-") >>
    /\ ~branch.exists
    /\ fix_pr_url = None

\* C12: create_branch and create_pull_request are each called at most once;
\* create_pull_request is called iff a commit went through in this run;
\* without a commit there is no result and no follow-up change request.
C12_OnePullIffCommitted ==
    /\ OpCount("create_branch") <= 1
    /\ OpCount("create_pull_request") <= 1
    /\ Len(pulls) <= OpCount("create_pull_request")
    /\ OpCount("create_pull_request") = 1 => commits # <<>>
    /\ pc = "fix_done" =>
          /\ (OpCount("create_pull_request") = 1 <=> commits # <<>>)
          /\ commits = <<>> => (fix_pr_url = None /\ pulls = <<>>)

\* One file failed, another was committed, and one change request was opened.
C12_Witness ==
    /\ pc = "fix_done"
    /\ failed # {}
    /\ Len(commits) = 1
    /\ OpCount("create_pull_request") = 1
    /\ Len(pulls) = 1
    /\ fix_pr_url # None

\* C26: when create_pull_request fails after a commit, generate_fix_pr
\* returns no result, and finishing changes neither the fix branch nor the
\* commits made on it.
C26_PullFailureKeepsCommits ==
    /\ []( (pc = "fix_done" /\ OpCount("create_pull_request") = 1 /\ pulls = <<>>) =>
              (fix_pr_url = None /\ commits # <<>> /\ branch.exists) )
    /\ [][ pc = "fix_finish" => (branch' = branch /\ commits' = commits) ]_vars
    /\ [][ \A i \in 1..Len(commits) : i <= Len(commits') /\ commits'[i] = commits[i] ]_vars

\* A file was committed, create_pull_request failed, nothing was returned.
C26_Witness ==
    /\ pc = "fix_done"
    /\ OpCount("create_pull_request") = 1
    /\ pulls = <<>>
    /\ fix_pr_url = None
    /\ Len(commits) >= 1
    /\ \E p \in Paths : branch.tree[p] = commits[Len(commits)].content

\* The first n entries of s, none when n is not positive.
FirstN(s, n) ==
    IF n <= 0 THEN <<>> ELSE SubSeq(s, 1, IF n < Len(s) THEN n ELSE Len(s))

IsPrefix(s, t) == Len(s) <= Len(t) /\ s = SubSeq(t, 1, Len(s))

RECURSIVE FirstSeen(_, _)
FirstSeen(fs, seen) ==
    IF fs = <<>> THEN <<>>
    ELSE IF ~Head(fs).suggested_fix \/ Head(fs).file \in seen
         THEN FirstSeen(Tail(fs), seen)
         ELSE <<Head(fs).file>> \o FirstSeen(Tail(fs), seen \cup {Head(fs).file})

\* C13: the files read are, in order and each once, a prefix of the first
\* fix_max_files_per_pr distinct paths of the findings that carry a fix, so
\* at most fix_max_files_per_pr of them; the sha reads, model calls and
\* commits are on files read, each at most once.
C13_TouchesFirstFilesOnly ==
    LET selected == FirstN(FirstSeen(fix_in, {}), config.fix_max_files_per_pr)
        reads == OpPaths("get_file_content")
        Once(ps) == \A i, j \in 1..Len(ps) : ps[i] = ps[j] => i = j
        Within(ps) == \A i \in 1..Len(ps) : \E j \in 1..Len(reads) : reads[j] = ps[i]
    IN  /\ reads # <<>> => Len(reads) <= config.fix_max_files_per_pr
        /\ IsPrefix(reads, selected)
        /\ \A name \in {"get_file_sha", "model_fix", "commit_file"} :
              Once(OpPaths(name)) /\ Within(OpPaths(name))
        /\ pc = "fix_finish" /\ branch.creator = "this_run" => reads = selected

\* C14: with no finding carrying a suggested fix the synthesis returns no
\* result and calls nothing: no create_branch, no commit_file, no
\* create_pull_request, no read and no model call.
C14_NoFixableNoEffects ==
    (\A i \in 1..Len(fix_in) : ~fix_in[i].suggested_fix)
        => /\ ops = <<>>
           /\ fix_pr_url = None
           /\ pulls = <<>>
           /\ commits = <<>>
           /\ branch.creator # "this_run"
           /\ pc \in {"fix_start", "fix_done"}

\* A finding without a suggested fix was handed in and the synthesis is over.
C14_Witness ==
    /\ pc = "fix_done"
    /\ fix_in # <<>>
    /\ \A i \in 1..Len(fix_in) : ~fix_in[i].suggested_fix
    /\ ops = <<>>

\* C15: every follow-up change request has as head the branch named
\* fix_branch_prefix + request number, which this run created from the
\* head revision, and as base the head branch of the change request under
\* review, not its base branch.
C15_PullHeadAndBase ==
    \A i \in 1..Len(pulls) :
        /\ pulls[i].head = config.fix_branch_prefix \o Digits(pr.number)
        /\ branch.exists
        /\ branch.name = pulls[i].head
        /\ branch.creator = "this_run"
        /\ branch.from = <<"sha", pr.head_sha>>
        /\ pulls[i].base = pr.head_branch
        /\ pulls[i].base # pr.base_branch

\* A follow-up change request was opened and its URL returned.
C15_Witness ==
    /\ pc = "fix_done"
    /\ Len(pulls) = 1
    /\ fix_pr_url = PullUrl(pulls[1])
    /\ commits # <<>>

(***************************************************************************)
(* Strings as sequences of characters, for the tests on their content.    *)
(***************************************************************************)
UpperToLower ==
    [A |-> "a", B |-> "b", C |-> "c", D |-> "d", E |-> "e", F |-> "f", G
     |-> "g", H |-> "h", I |-> "i", J |-> "j", K |-> "k", L |-> "l", M |->
     "m", N |-> "n", O |-> "o", P |-> "p", Q |-> "q", R |-> "r", S |-> "s",
     T |-> "t", U |-> "u", V |-> "v", W |-> "w", X |-> "x", Y |-> "y", Z
     |-> "z"]

\* str.lower()
Lower(s) ==
    [i \in 1..Len(s) |-> IF s[i] \in DOMAIN UpperToLower THEN UpperToLower[s[i]]
                          ELSE s[i]]

\* "sub in s"
Contains(s, sub) ==
    \E i \in 0..(Len(s) - Len(sub)) : SubSeq(s, i + 1, i + Len(sub)) = sub

\* s.startswith(prefix)
StartsWith(s, prefix) ==
    Len(prefix) <= Len(s) /\ SubSeq(s, 1, Len(prefix)) = prefix

\* The characters of the paths and patterns the model uses.
Chars(s) ==
    CASE s = "a.py" -> <<"a", ".", "p", "y">>
      [] s = "b.py" -> <<"b", ".", "p", "y">>
      [] s = "c.py" -> <<"c", ".", "p", "y">>
      [] s = "d.py" -> <<"d", ".", "p", "y">>
      [] s = "e.py" -> <<"e", ".", "p", "y">>
      [] s = "other.py" -> <<"o", "t", "h", "e", "r", ".", "p", "y">>
      [] s = "old.py" -> <<"o", "l", "d", ".", "p", "y">>
      [] s = "img.png" -> <<"i", "m", "g", ".", "p", "n", "g">>
      [] s = "package-lock.json" -> <<"p", "a", "c", "k", "a", "g", "e", "-", "l", "o", "c", "k", ".", "j", "s", "o", "n">>
      [] s = "src/auth.py" -> <<"s", "r", "c", "/", "a", "u", "t", "h", ".", "p", "y">>
      [] s = "yarn.lock" -> <<"y", "a", "r", "n", ".", "l", "o", "c", "k">>
      [] s = "docs/guide.md" -> <<"d", "o", "c", "s", "/", "g", "u", "i", "d", "e", ".", "m", "d">>
      [] s = "*.lock" -> <<"*", ".", "l", "o", "c", "k">>
      [] s = "docs/*" -> <<"d", "o", "c", "s", "/", "*">>

\* fnmatch.fnmatch(name, pat) for patterns of literals, "*" and "?".
RECURSIVE GlobMatch(_, _)
GlobMatch(n, p) ==
    IF p = <<>> THEN n = <<>>
    ELSE IF Head(p) = "*"
         THEN GlobMatch(n, Tail(p)) \/ (n # <<>> /\ GlobMatch(Tail(n), p))
    ELSE IF Head(p) = "?"
         THEN n # <<>> /\ GlobMatch(Tail(n), Tail(p))
    ELSE n # <<>> /\ Head(n) = Head(p) /\ GlobMatch(Tail(n), Tail(p))

fnmatch(name, pat) == GlobMatch(Chars(name), Chars(pat))

(***************************************************************************)
(* diff_parser.py: filter_files                                            *)
(***************************************************************************)
FileChange(f, st, patch) == [filename |-> f, status |-> st, patch |-> patch]

RECURSIVE FileNamesOf(_)
FileNamesOf(fcs) ==
    IF fcs = <<>> THEN <<>> ELSE <<Head(fcs).filename>> \o FileNamesOf(Tail(fcs))

_is_excluded(filename, patterns) ==
    \E i \in 1..Len(patterns) : fnmatch(filename, patterns[i])

\* Mutant: an entry without patch text passes.
filter_files_keeping_patchless(fcs, cfg) ==
    SelectSeq(fcs, LAMBDA fc : /\ fc.status # "removed"
                               /\ ~_is_excluded(fc.filename, cfg.exclude_patterns))

filter_files(fcs, cfg) ==
    SelectSeq(fcs, LAMBDA fc : /\ fc.status # "removed"
                               /\ ~_is_excluded(fc.filename, cfg.exclude_patterns)
                               /\ fc.patch)

(***************************************************************************)
(* Specification of filter_files alone: any list of up to MaxFiles of the  *)
(* entries below, any of the pattern lists below.                          *)
(***************************************************************************)
FileCandidates ==
    { FileChange("src/auth.py", "modified", TRUE),
      FileChange("package-lock.json", "modified", TRUE),
      FileChange("old.py", "removed", TRUE),
      FileChange("img.png", "added", FALSE),
      FileChange("yarn.lock", "added", TRUE),
      FileChange("docs/guide.md", "renamed", TRUE) }

PatternLists ==
    { <<>>, <<"package-lock.json">>, <<"package-lock.json", "*.lock">>,
      <<"docs/*", "*.lock">> }

RECURSIVE SeqsUpTo(_, _)
SeqsUpTo(S, n) ==
    IF n = 0 THEN { <<>> }
    ELSE SeqsUpTo(S, n - 1) \cup
         { Append(q, x) : q \in { r \in SeqsUpTo(S, n - 1) : Len(r) = n - 1 }, x \in S }

\* "files = filter_files(pr_info, config)"
FilterFiles ==
    /\ pc = "filter_start"
    /\ files' = FileNamesOf(filter_files(pr.files, config))
    /\ pc' = "filter_done"
    /\ UNCHANGED <<config, pr, ops, runVars, idx, all_findings, findings, sent,
                   contrib, answers, pollVars, fixVars>>

InitFilter ==
    /\ pc = "filter_start"
    /\ \E fcs \in SeqsUpTo(FileCandidates, MaxFiles) :
          pr = [SamplePR EXCEPT !.files = fcs]
    /\ \E pats \in PatternLists :
          config = [DefaultConfig EXCEPT !.exclude_patterns = pats]
    /\ ReviewIdle
    /\ PollIdle
    /\ FixIdle
    /\ ops = <<>>
    /\ RunIdle

NextFilter == FilterFiles

SpecFilter == InitFilter /\ [][NextFilter]_vars

(***************************************************************************)
(* Claims about filter_files (checked under SpecFilter).                   *)
(***************************************************************************)
\* Entry i of the change request is neither removed, nor excluded, nor
\* without patch text.
Survives(i) ==
    /\ pr.files[i].status # "removed"
    /\ \A k \in 1..Len(config.exclude_patterns) :
          ~fnmatch(pr.files[i].filename, config.exclude_patterns[k])
    /\ pr.files[i].patch

\* C16: filter_files returns exactly the entries that are not removed, match
\* no exclusion pattern and have patch text, in input order; src/auth.py
\* and package-lock.json with the pattern package-lock.json give
\* [src/auth.py].
C16_FilterExact ==
    pc = "filter_done" =>
        LET K == { i \in 1..Len(pr.files) : Survives(i) }
            Nth(j) == CHOOSE i \in K : Cardinality({ k \in K : k < i }) = j - 1
        IN  /\ Len(files) = Cardinality(K)
            /\ \A j \in 1..Len(files) : files[j] = pr.files[Nth(j)].filename
            /\ ( /\ FileNamesOf(pr.files) = <<"src/auth.py", "package-lock.json">>
                 /\ config.exclude_patterns = <<"package-lock.json">> )
               => files = <<"src/auth.py">>

\* The example of the claim, and a list that loses entries for each of the
\* three reasons.
C16_Witness ==
    /\ pc = "filter_done"
    /\ \/ /\ FileNamesOf(pr.files) = <<"src/auth.py", "package-lock.json">>
          /\ config.exclude_patterns = <<"package-lock.json">>
          /\ files = <<"src/auth.py">>
       \/ /\ FileNamesOf(pr.files) = <<"old.py", "img.png", "yarn.lock">>
          /\ config.exclude_patterns = <<"package-lock.json", "*.lock">>
          /\ files = <<>>

(***************************************************************************)
(* diff_parser.py: parse_patch_line_numbers. A line of the patch text is   *)
(* kept by the characters the code looks at: head = its first characters,  *)
(* start = the new-file start of a hunk header ("+c,d" or "+c").           *)
(***************************************************************************)
PatchLine(head, start) == [head |-> head, start |-> start]

HunkHeader(c) == PatchLine(<<"@", "@">>, c)

\* "+text", "+++text" (an added line whose text begins with "++"), "-text",
\* "---text" (a removed line whose text begins with "--"), " text".
AddedLine == PatchLine(<<"+">>, 0)
AddedPlusPlusLine == PatchLine(<<"+", "+", "+">>, 0)
RemovedLine == PatchLine(<<"-">>, 0)
RemovedMinusMinusLine == PatchLine(<<"-", "-", "-">>, 0)
ContextLine == PatchLine(<<" ">>, 0)

\* sorted(ranges, key=lambda r: r[0]): a stable insertion by start.
RECURSIVE InsertByStart(_, _)
InsertByStart(r, sorted) ==
    IF sorted = <<>> THEN <<r>>
    ELSE IF r[1] < Head(sorted)[1] THEN <<r>> \o sorted
    ELSE <<Head(sorted)>> \o InsertByStart(r, Tail(sorted))

RECURSIVE SortByStart(_)
SortByStart(rs) ==
    IF rs = <<>> THEN <<>>
    ELSE InsertByStart(rs[Len(rs)], SortByStart(SubSeq(rs, 1, Len(rs) - 1)))

\* "if start <= prev_end + 1"
MergesWith(start, prev_end) == start <= prev_end + 1

RECURSIVE MergeInto(_, _)
MergeInto(merged, rest) ==
    IF rest = <<>> THEN merged
    ELSE LET prev == merged[Len(merged)]
             r == Head(rest)
         IN  IF MergesWith(r[1], prev[2])
             THEN MergeInto([merged EXCEPT ![Len(merged)] =
                                <<prev[1], IF prev[2] > r[2] THEN prev[2] ELSE r[2]>>],
                            Tail(rest))
             ELSE MergeInto(Append(merged, r), Tail(rest))

_merge_ranges(ranges) ==
    IF ranges = <<>> THEN <<>>
    ELSE LET sorted_ranges == SortByStart(ranges)
         IN  MergeInto(<<Head(sorted_ranges)>>, Tail(sorted_ranges))

\* The for loop over the lines: the ranges recorded, given the counter.
RECURSIVE PatchRanges(_, _)
PatchRanges(lines, current_line) ==
    IF lines = <<>> THEN <<>>
    ELSE LET line == Head(lines) IN
         IF StartsWith(line.head, <<"@", "@">>)
         THEN PatchRanges(Tail(lines), line.start)
         ELSE IF StartsWith(line.head, <<"+">>) /\ ~StartsWith(line.head, <<"+", "+", "+">>)
         THEN <<<<current_line, current_line>>>>
                  \o PatchRanges(Tail(lines), current_line + 1)
         ELSE IF StartsWith(line.head, <<"-">>) /\ ~StartsWith(line.head, <<"-", "-", "-">>)
         THEN PatchRanges(Tail(lines), current_line)
         ELSE PatchRanges(Tail(lines), current_line + 1)

parse_patch_line_numbers(lines) == _merge_ranges(PatchRanges(lines, 0))

(***************************************************************************)
(* Specification of parse_patch_line_numbers alone: the empty patch, or a  *)
(* hunk header followed by up to MaxPatchLines - 1 lines.                  *)
(***************************************************************************)
PatchBodyLines ==
    { AddedLine, AddedPlusPlusLine, RemovedLine, RemovedMinusMinusLine,
      ContextLine, HunkHeader(10) }

Patches ==
    { <<>> } \cup
    { <<HunkHeader(c)>> \o body :
        c \in {1, 10}, body \in SeqsUpTo(PatchBodyLines, MaxPatchLines - 1) }

ParsePatch ==
    /\ pc = "patch_start"
    /\ line_ranges' = parse_patch_line_numbers(patch_lines)
    /\ pc' = "patch_done"
    /\ UNCHANGED <<config, pr, ops, reviewVars, pollVars, fixVars, creds,
                   issue_urls, returned, skipped, raised_in, passed, issue_ok, patch_lines,
                   response_text>>

InitPatch ==
    /\ pc = "patch_start"
    /\ config = DefaultConfig
    /\ pr = SamplePR
    /\ ops = <<>>
    /\ ReviewIdle
    /\ PollIdle
    /\ FixIdle
    /\ creds = [gh_token |-> TRUE, api_key |-> TRUE]
    /\ issue_urls = <<>>
    /\ returned = "none"
    /\ skipped = FALSE
    /\ raised_in = "none"
    /\ passed = "none"
    /\ issue_ok = <<>>
    /\ patch_lines \in Patches
    /\ line_ranges = <<>>
    /\ response_text = NoResponse

NextPatch == ParsePatch

SpecPatch == InitPatch /\ [][NextPatch]_vars

(***************************************************************************)
(* Claims about parse_patch_line_numbers (checked under SpecPatch).        *)
(***************************************************************************)
\* The new-file line numbers of the added lines of a patch: the counter is
\* set by a hunk header, an added line takes the counter and advances it,
\* a context line advances it, a removed line does not.
RECURSIVE AddedLineNumbers(_, _)
AddedLineNumbers(lines, counter) ==
    IF lines = <<>> THEN {}
    ELSE LET line == Head(lines) IN
         IF line.head[1] = "@" THEN AddedLineNumbers(Tail(lines), line.start)
         ELSE IF line.head[1] = "+"
         THEN {counter} \cup AddedLineNumbers(Tail(lines), counter + 1)
         ELSE IF line.head[1] = "-" THEN AddedLineNumbers(Tail(lines), counter)
         ELSE AddedLineNumbers(Tail(lines), counter + 1)

\* rs is the list of the maximal runs of the numbers in A, sorted by start.
MaximalRunsOf(rs, A) ==
    /\ \A i \in 1..Len(rs) : rs[i][1] <= rs[i][2]
    /\ \A i \in 1..(Len(rs) - 1) : rs[i + 1][1] > rs[i][2] + 1
    /\ \A i \in 1..Len(rs) : \A n \in rs[i][1]..rs[i][2] : n \in A
    /\ \A n \in A : \E i \in 1..Len(rs) : rs[i][1] <= n /\ n <= rs[i][2]

\* C29: parse_patch_line_numbers returns the maximal runs of new-file line
\* numbers of the added lines, sorted and neither overlapping nor adjacent;
\* "+1,3" with three added lines gives [(1,3)]; a hunk at 10 with context,
\* removed, added, added, context gives (11,12); the empty patch gives none.
C29_RangesAreAddedRuns ==
    pc = "patch_done" =>
        /\ MaximalRunsOf(line_ranges, AddedLineNumbers(patch_lines, 0))
        /\ patch_lines = <<>> => line_ranges = <<>>
        /\ patch_lines = <<HunkHeader(1), AddedLine, AddedLine, AddedLine>>
              => line_ranges = << <<1, 3>> >>
        /\ patch_lines = <<HunkHeader(10), ContextLine, RemovedLine, AddedLine, AddedLine,
                     ContextLine>>
              => line_ranges = << <<11, 12>> >>

(***************************************************************************)
(* main.py: _should_skip and run_review                                    *)
(***************************************************************************)
_BOT_ACTORS ==
    { <<"[", "b", "o", "t", "]">>,
      <<"g", "i", "t", "h", "u", "b", "-", "a", "c", "t", "i", "o", "n", "s">>,
      <<"d", "e", "p", "e", "n", "d", "a", "b", "o", "t">> }

AiFixPrefix == <<"a", "i", "-", "f", "i", "x", "/">>

\* The three guards of _should_skip, with the literals of main.py.
_should_skip(p) ==
    \/ \E bot \in _BOT_ACTORS : Contains(Lower(p.author), bot)
    \/ StartsWith(p.head_branch, AiFixPrefix)
    \/ "ai-fix" \in p.labels

\* Mutant: an entry that is not completed counts as well.
check_results_passed_any_status(rs) ==
    \A i \in 1..Len(rs) : rs[i].conclusion \in {"success", "neutral", "skipped"}

\* test_runner.py: check_results_passed
check_results_passed(rs) ==
    \A i \in 1..Len(rs) :
        ~(rs[i].status = "completed"
          /\ rs[i].conclusion \notin {"success", "neutral", "skipped"})

\* Mutant: the comment is posted ahead of the calls of the run.
PostCommentAhead(log) ==
    /\ ops' = <<Op("post_comment", "-")>> \o log
    /\ returned' = "True"
    /\ pc' = "run_done"

\* post_review_comment(pr_number, result, gh); return True
PostCommentAndReturn(log) ==
    /\ ops' = Append(log, Op("post_comment", "-"))
    /\ returned' = "True"
    /\ pc' = "run_done"

\* __main__.py: "return 0 if success else 1", the process exit code.
main(success) == IF success = "True" THEN 0 ELSE 1

\* Mutant: only the hosting token is required.
CredentialsMissingToken(c) == ~c.gh_token

\* "if not gh_token: return False" / "if not api_key: return False"
CredentialsMissing(c) == ~c.gh_token \/ ~c.api_key

\* Mutant: a skipped run leaves a comment on the change request.
SkipCallsComment(log) == Append(log, Op("post_comment", "-"))

\* "if _should_skip(pr_info, gh): return True": the calls made up to there.
SkipCalls(log) == log

\* Lines 42-62: credentials, get_pr_info, the loop-prevention guards.
RunStart ==
    /\ pc = "run_start"
    /\ IF CredentialsMissing(creds)
       THEN /\ returned' = "False"
            /\ pc' = "run_done"
            /\ UNCHANGED <<ops, skipped>>
       ELSE /\ IF _should_skip(pr)
               THEN ops' = SkipCalls(Append(ops, Op("get_pr_info", "-")))
               ELSE ops' = Append(ops, Op("get_pr_info", "-"))
            /\ IF _should_skip(pr)
               THEN /\ skipped' = TRUE
                    /\ returned' = "True"
                    /\ pc' = "run_done"
               ELSE /\ pc' = "load_config"
                    /\ UNCHANGED <<skipped, returned>>
    /\ UNCHANGED <<config, pr, patch_lines, line_ranges, response_text, creds, passed, issue_ok, issue_urls, raised_in, reviewVars, pollVars,
                   fixVars>>

\* Lines 64-75: get_repo_config, load_config, filter_files; with no
\* reviewable file the approval comment is posted and the run ends.
LoadAndFilter ==
    /\ pc = "load_config"
    /\ files' = FileNamesOf(filter_files(pr.files, config))
    /\ IF files' = <<>>
       THEN PostCommentAndReturn(Append(ops, Op("get_repo_config", "-")))
       ELSE /\ ops' = Append(ops, Op("get_repo_config", "-"))
            /\ pc' = "load_content"
            /\ UNCHANGED returned
    /\ UNCHANGED <<config, pr, patch_lines, line_ranges, response_text, creds, passed, issue_ok, issue_urls, skipped, raised_in, idx,
                   all_findings, findings, sent, contrib, answers, pollVars, fixVars>>

RECURSIVE ContentReads(_)
ContentReads(fs) ==
    IF fs = <<>> THEN <<>>
    ELSE <<Op("get_file_content", Head(fs))>> \o ContentReads(Tail(fs))

\* Lines 77-80: the content of every filtered file is read at head_sha;
\* get_file_content re-raises every hosting error but 404.
LoadContent ==
    /\ pc = "load_content"
    /\ \/ /\ ops' = ops \o ContentReads(files)
          /\ pc' = "review_loop"
          /\ UNCHANGED raised_in
       \/ \E k \in 1..Len(files) :
            /\ ops' = ops \o ContentReads(SubSeq(files, 1, k))
            /\ raised_in' = "load_content"
            /\ pc' = "run_raised"
    /\ UNCHANGED <<config, pr, patch_lines, line_ranges, response_text, creds, passed, issue_ok, issue_urls, returned, skipped, reviewVars,
                   pollVars, fixVars>>

\* What the review model answers in a whole run; e.py is a file of the
\* repository that is in no change request.
RunModelResponses(f) ==
    { Resp("api_error", <<>>), Resp("dict_null", <<>>),
      Resp("list", << Item(TRUE, f, "low", FALSE) >>),
      Resp("dict", << Item(TRUE, f, "high", TRUE),
                      Item(TRUE, "e.py", "critical", TRUE) >>) }

RunReviewFile ==
    ReviewFileWith([f \in {files[i] : i \in 1..Len(files)} |-> RunModelResponses(f)])

\* Mutant: the first failed create_issue ends the loop.
RECURSIVE IssueUrlsUntilFailure(_, _)
IssueUrlsUntilFailure(fs, ok) ==
    IF fs = <<>> \/ ~Head(ok) THEN <<>>
    ELSE <<Head(fs)>> \o IssueUrlsUntilFailure(Tail(fs), Tail(ok))

\* issue_creator.py: the URLs of the create_issue calls that succeeded.
RECURSIVE IssueUrls(_, _)
IssueUrls(fs, ok) ==
    IF fs = <<>> THEN <<>>
    ELSE (IF Head(ok) THEN <<Head(fs)>> ELSE <<>>) \o IssueUrls(Tail(fs), Tail(ok))

\* Which create_issue calls succeed: all, none, or all but the first.
IssueOutcomes(n) ==
    { [i \in 1..n |-> TRUE], [i \in 1..n |-> FALSE], [i \in 1..n |-> i # 1] }

\* Lines 86-96: result = ReviewResult(findings); create_issues when there
\* are findings; then the Fix Synthesizer, or straight to the comment.
CreateIssues ==
    /\ pc = "review_done"
    /\ IF findings = <<>>
       THEN /\ PostCommentAndReturn(ops)
            /\ UNCHANGED <<issue_urls, issue_ok, fix_in>>
       ELSE \E ok \in IssueOutcomes(Len(findings)) :
              /\ issue_ok' = ok
              /\ issue_urls' = IssueUrls(findings, ok)
              /\ IF config.fix_enabled
                 THEN /\ ops' = ops \o [i \in 1..Len(findings) |->
                                            Op("create_issue", findings[i].file)]
                      /\ fix_in' = findings
                      /\ pc' = "fix_start"
                      /\ UNCHANGED returned
                 ELSE /\ PostCommentAndReturn(
                            ops \o [i \in 1..Len(findings) |->
                                      Op("create_issue", findings[i].file)])
                      /\ UNCHANGED fix_in
    /\ UNCHANGED <<config, pr, patch_lines, line_ranges, response_text, creds, passed, skipped, raised_in, reviewVars, pollVars,
                   files_to_fix, fidx, FixVarsOfFile, committed_any, fix_pr_url, pulls,
                   branch, commits, failed, handled, writes>>

\* Mutant: the fix URL is not looked at.
ShouldPollWithoutUrl(url, cfg) == cfg.test_check_enabled

\* "if result.fix_pr_url and config.test_check_enabled"
ShouldPoll(url, cfg) == url # None /\ cfg.test_check_enabled

\* Lines 98-109 after generate_fix_pr returned: wait_for_checks is called
\* when a fix URL exists and check polling is enabled.
RunAfterFix ==
    /\ pc = "fix_done"
    /\ IF ShouldPoll(fix_pr_url, config)
       THEN pc' = "wait_start" /\ UNCHANGED <<ops, returned>>
       ELSE PostCommentAndReturn(ops)
    /\ UNCHANGED <<config, pr, patch_lines, line_ranges, response_text, creds, passed, issue_ok, issue_urls, skipped, raised_in, reviewVars,
                   pollVars, fixVars>>

\* Lines 104-117 after wait_for_checks returned.
RunAfterWait ==
    /\ pc = "wait_done"
    /\ passed' = IF check_results_passed(test_results) THEN "True" ELSE "False"
    /\ PostCommentAndReturn(ops)
    /\ UNCHANGED <<config, pr, patch_lines, line_ranges, response_text, creds, issue_ok, issue_urls, skipped, raised_in, reviewVars,
                   pollVars, fixVars>>

(***************************************************************************)
(* Specification of check_results_passed alone: run_review applies it to   *)
(* any list of up to MaxChecks check runs wait_for_checks may return.      *)
(***************************************************************************)
CheckEntries ==
    { TestResult("CI", "queued", "none"),
      TestResult("CI", "in_progress", "none"),
      TestResult("CI", "in_progress", "failure"),
      TestResult("CI", "completed", "none"),
      TestResult("CI", "completed", "success"),
      TestResult("CI", "completed", "neutral"),
      TestResult("CI", "completed", "skipped"),
      TestResult("CI", "completed", "failure"),
      TestResult("CI", "completed", "timed_out"),
      TestResult("CI", "completed", "cancelled") }

InitPass ==
    /\ pc = "wait_done"
    /\ config = DefaultConfig
    /\ pr = SamplePR
    /\ ops = <<>>
    /\ RunIdle
    /\ ReviewIdle
    /\ FixIdle
    /\ test_results \in SeqsUpTo(CheckEntries, MaxChecks)
    /\ results = test_results
    /\ last_fetched = test_results
    /\ elapsed = 0
    /\ poll_state = "completed"
    /\ polls = 1
    /\ waits = 0

NextPass == RunAfterWait

SpecPass == InitPass /\ [][NextPass]_vars

\* An entry that is completed with a conclusion other than success, neutral
\* or skipped.
Failing(r) ==
    r.status = "completed" /\ r.conclusion \notin {"success", "neutral", "skipped"}

\* C21: check_results_passed is true iff no entry is completed with a
\* conclusion outside {success, neutral, skipped}: the empty list passes,
\* entries not yet completed do not count, and one completed entry with
\* failure, timed_out or cancelled fails the list.
C21_PassIffNoCompletedFailure ==
    passed # "none" =>
        /\ passed = "True" <=> ~\E i \in 1..Len(test_results) : Failing(test_results[i])
        /\ test_results = <<>> => passed = "True"
        /\ (\A i \in 1..Len(test_results) : test_results[i].status # "completed")
              => passed = "True"
        /\ (\E i \in 1..Len(test_results) :
               /\ test_results[i].status = "completed"
               /\ test_results[i].conclusion \in {"failure", "timed_out", "cancelled"})
              => passed = "False"

\* completed/success with completed/failure fails; an entry in progress
\* with a failure conclusion does not.
C21_Witness ==
    \/ /\ passed = "False"
       /\ test_results = << TestResult("CI", "completed", "success"),
                            TestResult("CI", "completed", "failure") >>
    \/ /\ passed = "True"
       /\ test_results = << TestResult("CI", "in_progress", "failure"),
                            TestResult("CI", "completed", "neutral") >>

(***************************************************************************)
(* Specification of a whole run of run_review.                             *)
(***************************************************************************)
\* Change requests: ordinary ones, bot-authored ones, and follow-up
\* requests as generate_fix_pr opens them (default and custom naming).
RunPRs ==
    { [SamplePR EXCEPT !.files = << FileChange("a.py", "modified", TRUE) >>],
      [SamplePR EXCEPT !.files = << FileChange("old.py", "removed", TRUE),
                                    FileChange("package-lock.json", "modified", TRUE),
                                    FileChange("a.py", "modified", TRUE),
                                    FileChange("img.png", "added", FALSE),
                                    FileChange("b.py", "added", TRUE) >>],
      [SamplePR EXCEPT !.files = << FileChange("old.py", "removed", TRUE) >>],
      [SamplePR EXCEPT !.author = <<"d", "e", "p", "e", "n", "d", "a", "b", "o", "t", "[", "b", "o", "t", "]">>,
                       !.files = << FileChange("a.py", "modified", TRUE) >>],
      [SamplePR EXCEPT !.author = <<"g", "i", "t", "h", "u", "b", "-", "a", "c", "t", "i", "o", "n", "s">>,
                       !.files = << FileChange("a.py", "modified", TRUE) >>],
      [SamplePR EXCEPT !.head_branch = <<"a", "i", "-", "f", "i", "x", "/", "4", "2">>,
                       !.files = << FileChange("a.py", "modified", TRUE) >>],
      [SamplePR EXCEPT !.labels = {"enhancement", "ai-fix", "urgent"},
                       !.files = << FileChange("a.py", "modified", TRUE) >>],
      [SamplePR EXCEPT !.head_branch = <<"b", "o", "t", "-", "f", "i", "x", "/", "4", "2">>,
                       !.labels = {"auto-fix", "automated"},
                       !.files = << FileChange("a.py", "modified", TRUE) >>] }

RunBaseConfig ==
    [DefaultConfig EXCEPT !.exclude_patterns = <<"package-lock.json", "*.lock">>,
                          !.test_check_timeout = 20,
                          !.test_check_poll_interval = 30]

RunConfigs ==
    { RunBaseConfig,
      [RunBaseConfig EXCEPT !.fix_branch_prefix = <<"b", "o", "t", "-", "f", "i", "x", "/">>,
                            !.labels = [review |-> "ai-review",
                                        automated |-> "automated",
                                        fix |-> "auto-fix"]],
      [RunBaseConfig EXCEPT !.fix_enabled = FALSE],
      [RunBaseConfig EXCEPT !.test_check_enabled = FALSE] }

Init ==
    /\ pc = "run_start"
    /\ creds \in [gh_token : BOOLEAN, api_key : BOOLEAN]
    /\ pr \in RunPRs
    /\ config \in RunConfigs
    /\ ops = <<>>
    /\ issue_urls = <<>>
    /\ returned = "none"
    /\ skipped = FALSE
    /\ raised_in = "none"
    /\ passed = "none"
    /\ issue_ok = <<>>
    /\ patch_lines = <<>>
    /\ line_ranges = <<>>
    /\ response_text = NoResponse
    /\ ReviewIdle
    /\ PollIdle
    /\ FixIdle

Next ==
    \/ RunStart
    \/ LoadAndFilter
    \/ LoadContent
    \/ RunReviewFile
    \/ ReviewReturn
    \/ CreateIssues
    \/ FixStart
    \/ FixReadContent
    \/ FixReadSha
    \/ FixModelCall
    \/ FixCommit
    \/ FixFinish
    \/ RunAfterFix
    \/ WaitStart
    \/ Poll
    \/ PollRaises
    \/ PollTimeout
    \/ RunAfterWait

Spec == Init /\ [][Next]_vars

(***************************************************************************)
(* Claims about run_review (checked under Spec).                           *)
(***************************************************************************)
Crashed == pc \in {"run_raised", "review_raised", "wait_raised"}

CommentPosted == \E i \in 1..Len(ops) : ops[i].op = "post_comment"

\* C1: a run that has credentials and is not stopped by a guard ends, under
\* every combination of failures of the later stages, by posting the
\* summary comment and returning success.
C1_RunEndsWithComment ==
    (creds.gh_token /\ creds.api_key /\ ~skipped /\ (pc = "run_done" \/ Crashed))
        => (~Crashed /\ returned = "True" /\ CommentPosted)

\* The guards as the claim states them: with the configured fix-branch
\* prefix and the configured fix label.
ConfiguredGuards(p, cfg) ==
    \/ \E bot \in _BOT_ACTORS : Contains(Lower(p.author), bot)
    \/ StartsWith(p.head_branch, cfg.fix_branch_prefix)
    \/ cfg.labels.fix \in p.labels

\* C2: the change request is skipped iff its author contains a bot marker,
\* or its head branch starts with config.fix_branch_prefix, or its labels
\* include config.labels["fix"].
C2_SkipIffConfiguredGuard ==
    (creds.gh_token /\ creds.api_key /\ pc # "run_start")
        => (skipped <=> ConfiguredGuards(pr, config))

Called(name) == \E i \in 1..Len(ops) : ops[i].op = name

CallCount(name) == Cardinality({ i \in 1..Len(ops) : ops[i].op = name })

\* C22: create_issue is called iff there are findings; the Fix Synthesizer
\* runs iff there are findings and fix_enabled; the Check Poller polls iff
\* the Synthesizer returned a URL and test_check_enabled; so issue URLs
\* come only with findings, a fix URL only with findings and fix_enabled,
\* test results only with a fix URL.
C22_StagesRunIffEnabled ==
    /\ Called("create_issue") => findings # <<>>
    /\ (fix_in # <<>> \/ Called("create_branch")) =>
          (findings # <<>> /\ config.fix_enabled)
    /\ Called("get_check_runs") => (fix_pr_url # None /\ config.test_check_enabled)
    /\ issue_urls # <<>> => findings # <<>>
    /\ fix_pr_url # None => (findings # <<>> /\ config.fix_enabled)
    /\ test_results # <<>> => fix_pr_url # None
    /\ (pc = "run_done" /\ returned = "True" /\ ~skipped) =>
          /\ findings # <<>> => CallCount("create_issue") = Len(findings)
          /\ (findings # <<>> /\ config.fix_enabled) => fix_in = findings
          /\ (fix_pr_url # None /\ config.test_check_enabled) =>
                Called("get_check_runs")

\* A run with issues, a follow-up change request and polled checks.
C22_Witness ==
    /\ pc = "run_done"
    /\ issue_urls # <<>>
    /\ fix_pr_url # None
    /\ polls >= 1
    /\ test_results # <<>>
    /\ CommentPosted

\* C23: a run stopped by a loop-prevention guard returns success (exit code
\* 0) and has made no call but the read of the change request: no issue, no
\* branch, no commit, no change request, no comment, no model call, no
\* configuration or file-content read.
C23_SkipHasNoEffects ==
    /\ (~CredentialsMissing(creds) /\ _should_skip(pr) /\ pc # "run_start") => skipped
    /\ skipped =>
          /\ pc = "run_done"
          /\ returned = "True"
          /\ main(returned) = 0
          /\ ops = << Op("get_pr_info", "-") >>
          /\ sent = <<>>
          /\ issue_urls = <<>>
          /\ branch = NoBranch
          /\ commits = <<>>
          /\ pulls = <<>>

\* A change request carrying the fix label was skipped.
C23_Witness ==
    /\ skipped
    /\ pc = "run_done"
    /\ "ai-fix" \in pr.labels
    /\ returned = "True"

\* C24: with the hosting token or the model API key missing the run returns
\* failure (exit code 1) before any hosting or model call; every other
\* completed run exits with code 0.
C24_MissingCredentialsFail ==
    /\ (~creds.gh_token \/ ~creds.api_key) =>
          /\ pc \in {"run_start", "run_done"}
          /\ ops = <<>>
          /\ sent = <<>>
          /\ pc = "run_done" => (returned = "False" /\ main(returned) = 1)
    /\ (creds.gh_token /\ creds.api_key /\ pc = "run_done") =>
          (returned = "True" /\ main(returned) = 0)

\* The hosting token is there, the API key is not, and the run has failed.
C24_Witness ==
    /\ pc = "run_done"
    /\ creds.gh_token
    /\ ~creds.api_key
    /\ returned = "False"
    /\ ops = <<>>

\* C30: create_issue is called once per finding, in finding order; the
\* URLs returned are those of the calls that went through, in that order; a
\* failed call costs only its own URL, so there are at most as many URLs
\* as findings, and as many when no call fails.
C30_OneIssuePerFinding ==
    Called("create_issue") =>
        LET K == { i \in 1..Len(findings) : issue_ok[i] }
            Nth(j) == CHOOSE i \in K : Cardinality({ k \in K : k < i }) = j - 1
            calls == SelectSeq(ops, LAMBDA o : o.op = "create_issue")
        IN  /\ Len(issue_ok) = Len(findings)
            /\ Len(calls) = Len(findings)
            /\ \A i \in 1..Len(calls) : calls[i].path = findings[i].file
            /\ Len(issue_urls) = Cardinality(K)
            /\ \A j \in 1..Len(issue_urls) : issue_urls[j] = findings[Nth(j)]
            /\ Len(issue_urls) <= Len(findings)
            /\ K = 1..Len(findings) => issue_urls = findings

\* The first create_issue failed and the later finding still got its issue.
C30_Witness ==
    /\ Called("create_issue")
    /\ Len(findings) >= 2
    /\ ~issue_ok[1]
    /\ issue_ok[2]
    /\ Len(issue_urls) = Len(findings) - 1
    /\ issue_urls[1] = findings[2]

\* A follow-up change request as generate_fix_pr opens it under cfg: its
\* head is cfg.fix_branch_prefix followed by the number of the request it
\* fixes, its labels are cfg.labels["fix"] and cfg.labels["automated"].
FollowUpOf(p, cfg) ==
    /\ \E n \in 1..99 : p.head_branch = cfg.fix_branch_prefix \o Digits(n)
    /\ p.labels = {cfg.labels.fix, cfg.labels.automated}

\* C31: under every configuration and for every owner of the hosting
\* token, a run on a follow-up change request that generate_fix_pr opened
\* is stopped by a loop-prevention guard: it is skipped and none of its
\* files is sent to the model.
C31_FollowUpIsSkipped ==
    (creds.gh_token /\ creds.api_key /\ pc # "run_start" /\ FollowUpOf(pr, config))
        => (skipped /\ sent = <<>>)

(***************************************************************************)
(* Further claims about wait_for_checks.                                   *)
(***************************************************************************)
\* C32: once the polling loop is entered, wait_for_checks ends (it returns
\* completed or timed-out, or an exception of a call it makes leaves it),
\* whatever integers the timeout and the interval are and whatever the
\* check runs report.
C32_WaitTerminates ==
    (pc = "poll_loop") ~> (pc \in {"wait_done", "wait_raised"})

\* C34: with a positive timeout and a positive interval the accumulated
\* wait never exceeds test_check_timeout.
C34_WaitWithinTimeout ==
    (config.test_check_timeout > 0 /\ config.test_check_poll_interval > 0)
        => elapsed <= config.test_check_timeout

\* C37: there is no wait before the first poll; every wait follows a poll
\* and lasts test_check_poll_interval; when wait_for_checks has ended the
\* number of waits is the number of polls minus one (the last poll is
\* followed by no wait), and while it is between polls the two are equal.
C37_WaitsBetweenPolls ==
    /\ [](polls = 0 => waits = 0)
    /\ [](elapsed = waits * config.test_check_poll_interval)
    /\ []((pc \in {"wait_done", "wait_raised"} /\ polls > 0) => waits = polls - 1)
    /\ [](pc = "poll_loop" => waits = polls)
    /\ [][waits' # waits =>
            /\ waits' = waits + 1
            /\ polls' = polls + 1
            /\ elapsed' = elapsed + config.test_check_poll_interval]_vars

\* Three polls and two waits of 25 seconds each, then the result.
C37_Witness ==
    /\ pc = "wait_done"
    /\ config.test_check_poll_interval = 25
    /\ polls = 3
    /\ waits = 2
    /\ elapsed = 50
    /\ poll_state = "completed"

(***************************************************************************)
(* Specification of _extract_fixed_content alone: any response text of up  *)
(* to MaxResponseLines lines.                                              *)
(***************************************************************************)
ResponseLines == {Fence, InlineLine, PlainLine(<<"a">>), PlainLine(<<"b">>)}

ResponseTexts ==
    { Response("object", f, <<>>) :
        f \in {Absent, None, Joined(<<PlainLine(<<"a">>)>>)} }
    \cup { Response("object", Absent, <<InlineLine>>), Response("other", Absent, <<>>) }
    \cup { Response("invalid", Absent, lines) :
             lines \in SeqsUpTo(ResponseLines, MaxResponseLines) }

ExtractFixedContent ==
    /\ pc = "extract_start"
    /\ fixed_content' = _extract_fixed_content(response_text)
    /\ pc' = "extract_done"
    /\ UNCHANGED <<runVars, config, pr, ops, reviewVars, pollVars, fix_in, files_to_fix,
                   fidx, current_content, file_sha, committed_any, fix_pr_url, pulls,
                   branch, commits, failed, handled, writes>>

InitExtract ==
    /\ pc = "extract_start"
    /\ config = DefaultConfig
    /\ pr = SamplePR
    /\ ops = <<>>
    /\ ReviewIdle
    /\ PollIdle
    /\ FixIdle
    /\ creds = [gh_token |-> TRUE, api_key |-> TRUE]
    /\ issue_urls = <<>>
    /\ returned = "none"
    /\ skipped = FALSE
    /\ raised_in = "none"
    /\ passed = "none"
    /\ issue_ok = <<>>
    /\ patch_lines = <<>>
    /\ line_ranges = <<>>
    /\ response_text \in ResponseTexts

NextExtract == ExtractFixedContent

SpecExtract == InitExtract /\ [][NextExtract]_vars

(***************************************************************************)
(* Claims about _extract_fixed_content (checked under SpecExtract).        *)
(***************************************************************************)
FenceIndexes(lines) == { i \in 1..Len(lines) : lines[i][1] = "fence" }

\* The lines between the first marker line and the last marker line.
BetweenFirstAndLast(lines) ==
    LET F == FenceIndexes(lines)
        first == CHOOSE i \in F : \A j \in F : i <= j
        last == CHOOSE i \in F : \A j \in F : j <= i
    IN SubSeq(lines, first + 1, last - 1)

\* The extraction as the claim states it.
StatedExtract(r) ==
    IF r.json = "object" /\ r.fixed_content # Absent THEN r.fixed_content
    ELSE IF FenceIndexes(r.lines) # {}
         THEN IF BetweenFirstAndLast(r.lines) # <<>>
              THEN Joined(BetweenFirstAndLast(r.lines)) ELSE None
    ELSE None

\* C35: the result is the fixed_content field of a response that parses
\* as a JSON object with that field; otherwise the text between the first
\* and the last marker line of a response with fenced-code-block markers;
\* otherwise nothing. (A response with a single marker line has no first
\* and last marker to take the text between and is not judged.)
C35_ExtractAsStated ==
    (pc = "extract_done" /\ Cardinality(FenceIndexes(response_text.lines)) # 1)
        => fixed_content = StatedExtract(response_text)

(***************************************************************************)
(* Further claims about generate_fix_pr (checked under SpecFix).           *)
(***************************************************************************)
FileOps == {"get_file_content", "get_file_sha", "model_fix", "commit_file"}

StepOf(name) ==
    CASE name = "get_file_content" -> 1
      [] name = "get_file_sha" -> 2
      [] name = "model_fix" -> 3
      [] name = "commit_file" -> 4

PosIn(seq, x) == CHOOSE i \in 1..Len(seq) : seq[i] = x

\* C33: the calls made for the selected files come file by file, in the
\* order content read, token read, model call, commit, and no call for a
\* file comes after a call for a later file; the token a commit passes is
\* the blob SHA the file had on the branch when the token was read in
\* that file's own step, and no token outlives the step it was read in.
C33_FilesOneAfterAnother ==
    /\ [](\A i, j \in 1..Len(ops) :
            (i < j /\ ops[i].op \in FileOps /\ ops[j].op \in FileOps) =>
                \/ PosIn(files_to_fix, ops[i].path) < PosIn(files_to_fix, ops[j].path)
                \/ /\ ops[i].path = ops[j].path
                   /\ StepOf(ops[i].op) < StepOf(ops[j].op))
    /\ [](file_sha # None =>
            /\ pc \in {"fix_model", "fix_commit"}
            /\ \E i \in 1..Len(ops) :
                 /\ ops[i] = Op("get_file_sha", files_to_fix[fidx])
                 /\ \A j \in (i + 1)..Len(ops) : ops[j].path = files_to_fix[fidx])
    /\ [][(pc = "fix_read_sha" /\ pc' = "fix_model") =>
            file_sha' = Sha(branch.tree[files_to_fix[fidx]])]_vars
    /\ [][(pc = "fix_model" /\ pc' = "fix_commit") => file_sha' = file_sha]_vars
    /\ [][commits' # commits =>
            /\ pc = "fix_commit"
            /\ commits'[Len(commits')].path = files_to_fix[fidx]
            /\ file_sha = Sha(commits'[Len(commits')].replaced)]_vars

\* Two files committed one after the other, the second one after another
\* writer had edited it: its token was read after that edit.
C33_Witness ==
    /\ pc = "fix_done"
    /\ Len(commits) = 2
    /\ commits[1].path = "a.py"
    /\ commits[2].path = "b.py"
    /\ commits[2].replaced = <<"w", <<"v0">>>>

\* C38: every file the body of the follow-up change request lists was
\* committed to the fix branch in this run.
C38_BodyListsCommittedFiles ==
    \A k \in 1..Len(pulls) :
        \A i \in 1..Len(pulls[k].body) :
            \E c \in 1..Len(commits) : commits[c].path = pulls[k].body[i]

\* C39: when the fix branch is there from an earlier invocation, the
\* invocation makes at most the create_branch call: it returns no
\* result, reads no file, calls no model, commits nothing, opens no change
\* request, and leaves the branch as it found it.
C39_ExistingBranchStopsSynthesis ==
    [][branch.creator = "earlier" =>
        /\ branch' = branch
        /\ pc' = "fix_done"
        /\ fix_pr_url' = None
        /\ commits' = commits
        /\ pulls' = pulls
        /\ ops' \in {ops, Append(ops, Op("create_branch", "-"))}]_vars

C39_Witness ==
    /\ pc = "fix_done"
    /\ branch = HeadTree(FixBranchName, pr.head_sha, "earlier")
    /\ Fixable(fix_in) # <<>>
    /\ ops = << Op("create_branch", "-") >>
    /\ fix_pr_url = None

(***************************************************************************)
(* Further claims about run_review (checked under Spec).                   *)
(***************************************************************************)
\* The stage a call of the run belongs to: 0 the reads before the review,
\* 1 issue creation, 2 branch creation, 3 the per-file work on the fix
\* branch, 4 the follow-up change request, 5 the check-run polls, 6 the
\* summary comment.
StageOf(i) ==
    LET name == ops[i].op IN
    CASE name \in {"get_pr_info", "get_repo_config"} -> 0
      [] name = "get_file_content" ->
            IF \E j \in 1..(i - 1) : ops[j].op = "create_branch" THEN 3 ELSE 0
      [] name = "create_issue" -> 1
      [] name = "create_branch" -> 2
      [] name \in {"get_file_sha", "model_fix", "commit_file"} -> 3
      [] name = "create_pull_request" -> 4
      [] name = "get_check_runs" -> 5
      [] name = "post_comment" -> 6

Reviewed == { sent[k] : k \in 1..Len(sent) }

\* C40: every path read, rewritten or committed on the fix branch is a
\* file that was sent to the model for review in this run.
C40_FixTouchesReviewedFilesOnly ==
    /\ \A i \in 1..Len(ops) : StageOf(i) = 3 => ops[i].path \in Reviewed
    /\ \A c \in 1..Len(commits) : commits[c].path \in Reviewed
====
